---- MODULE Spec2Model ----
(***************************************************************************)
(* Verification model of hispanos/nodewire: the component state model      *)
(* (lib/nodewire/Component.ts), the component manager and its reactive     *)
(* polling (lib/nodewire/NodeWireManager.ts) and the template engine's     *)
(* renderer cache (BladeEngine / ViewEngine).                              *)
(***************************************************************************)
EXTENDS Integers, Sequences, FiniteSets, TLC

(***************************************************************************)
(* Bounds of the model.                                                    *)
(***************************************************************************)
\* largest value of the numeric property `count`
MaxCount == 1
\* largest length of the array property `$items`
MaxLen == 1
\* number of distinct contents a template file takes over time
MaxVersion == 2
\* the longest template name
MaxPath == 3
\* the longest expression, in lexemes, beside the examples
MaxExpr == 3
\* the longest template without directives, in characters
MaxText == 3
\* the most items of an array looped over
MaxItems == 2
\* the most elements of a page that is marked
MaxElements == 2
\* the most times a page is marked
MaxMarks == 2

(***************************************************************************)
(* Property names, and the characters of each, so that the prefix tests of *)
(* the code (startsWith('_'), startsWith('$')) are computed on the name.   *)
(***************************************************************************)
N_id == "id"
N_name == "name"
N_count == "count"
N_loading == "$loading"
N_items == "$items"
N_secret == "_secret"
N_onChange == "onChange"
N_constructor == "constructor"
N_increment == "increment"
N_reset == "reset"
N_removeItem == "removeItem"
N_addUser == "addUser"
N_stageItem == "stageItem"
N_fail == "fail"
N_render == "render"
N_getState == "getState"
N_setState == "setState"
N_bogus == "bogus"
N_hasOwnProperty == "hasOwnProperty"

CharTable ==
    (N_id :> <<"i", "d">>)
    @@ (N_name :> <<"n", "a", "m", "e">>)
    @@ (N_count :> <<"c", "o", "u", "n", "t">>)
    @@ (N_loading :> <<"$", "l", "o", "a", "d", "i", "n", "g">>)
    @@ (N_items :> <<"$", "i", "t", "e", "m", "s">>)
    @@ (N_secret :> <<"_", "s", "e", "c", "r", "e", "t">>)
    @@ (N_onChange :> <<"o", "n", "C", "h", "a", "n", "g", "e">>)
    @@ (N_constructor :> <<"c", "o", "n", "s", "t", "r", "u", "c", "t", "o", "r">>)
    @@ (N_increment :> <<"i", "n", "c", "r", "e", "m", "e", "n", "t">>)
    @@ (N_reset :> <<"r", "e", "s", "e", "t">>)
    @@ (N_removeItem :> <<"r", "e", "m", "o", "v", "e", "I", "t", "e", "m">>)
    @@ (N_addUser :> <<"a", "d", "d", "U", "s", "e", "r">>)
    @@ (N_stageItem :> <<"s", "t", "a", "g", "e", "I", "t", "e", "m">>)
    @@ (N_fail :> <<"f", "a", "i", "l">>)
    @@ (N_render :> <<"r", "e", "n", "d", "e", "r">>)
    @@ (N_getState :> <<"g", "e", "t", "S", "t", "a", "t", "e">>)
    @@ (N_setState :> <<"s", "e", "t", "S", "t", "a", "t", "e">>)
    @@ (N_bogus :> <<"b", "o", "g", "u", "s">>)

Chars(name) == CharTable[name]

StartsWith(name, ch) == Len(Chars(name)) > 0 /\ Chars(name)[1] = ch

(***************************************************************************)
(* Values carry their JavaScript type (what typeof answers) and their      *)
(* contents (what JSON.stringify shows); an array is its contents.         *)
(***************************************************************************)
Num(n) == [t |-> "number", v |-> n]
Bool(b) == [t |-> "boolean", v |-> b]
Str(s) == [t |-> "string", v |-> s]
Arr(s) == [t |-> "object", v |-> s]
\* the value of a property that holds a function (a method or a callback)
Fn == [t |-> "function", v |-> "f"]
Undefined == [t |-> "undefined", v |-> ""]

(***************************************************************************)
(* The component classes: CounterComponent (count; increment, reset) and   *)
(* UsersComponent (a volatile flag and a volatile array; addUser and       *)
(* removeItem, which replaces the array as removeUser does).  stageItem    *)
(* appends to the array in place before its first await and takes the item *)
(* back, in place, when the awaited operation fails; fail throws.          *)
(***************************************************************************)
ClassNames == {"CounterComponent", "UsersComponent"}

\* the methods of Component itself
ComponentMethods == {N_constructor, N_render, N_getState, N_setState}

\* the names on the prototype of a class
ClassMethods(className) ==
    IF className = "CounterComponent"
    THEN {N_constructor, N_increment, N_reset, N_fail}
    ELSE {N_constructor, N_addUser, N_stageItem, N_removeItem, N_fail}

\* Names found on the prototype chain of a component instance, below
\* Object.prototype.
ProtoNames(obj) == ClassMethods(obj[N_name].v) \cup ComponentMethods

\* this[prop]: an own property, else the prototype's function, else
\* undefined.
GetProp(obj, p) ==
    IF p \in DOMAIN obj THEN obj[p]
    ELSE IF p \in ProtoNames(obj) THEN Fn
    ELSE Undefined

\* typeof this[prop] === 'function'
IsFunction(obj, p) == GetProp(obj, p).t = "function"

\* Mutant: the identity fields are not filtered out.
GetPublicPropertiesKeepsId(obj) ==
    {p \in DOMAIN obj \cup ProtoNames(obj) :
        /\ ~StartsWith(p, "_")
        /\ ~IsFunction(obj, p)}

\* Component.getPublicProperties: the names on the instance and its
\* prototypes that are not private, not id or name, and hold no function.
GetPublicProperties(obj) ==
    {p \in DOMAIN obj \cup ProtoNames(obj) :
        /\ ~(StartsWith(p, "_") \/ p = N_id \/ p = N_name)
        /\ ~IsFunction(obj, p)}

\* Component.getState
GetState(obj) == [p \in GetPublicProperties(obj) |-> obj[p]]

\* Component.setState, line 57: state.hasOwnProperty(prop) calls whatever
\* the map holds under the key hasOwnProperty; an own key of that name
\* hides Object.prototype's method, and calling a value that is no
\* function throws a TypeError.  The test runs once per public property.
SetStateThrows(obj, state) ==
    /\ GetPublicProperties(obj) # {}
    /\ N_hasOwnProperty \in DOMAIN state
    /\ state[N_hasOwnProperty].t # "function"

\* Component.setState: every public property that the incoming map has as
\* an own key is assigned; nothing else is touched.  (The component as it
\* is left when the call throws at its first test: untouched.)
SetState(obj, state) ==
    LET publicProps == GetPublicProperties(obj) IN
    IF SetStateThrows(obj, state) THEN obj
    ELSE [p \in DOMAIN obj |->
            IF p \in publicProps /\ p \in DOMAIN state
            THEN state[p]
            ELSE obj[p]]

(***************************************************************************)
(* The values the properties take.  The array holds the items 1..n.        *)
(***************************************************************************)
Counts == {Num(n) : n \in 0 .. MaxCount}
Flags == {Bool(b) : b \in BOOLEAN}
ItemVals == {Arr([i \in 1 .. n |-> i]) : n \in 0 .. MaxLen}

EmptyMap == [x \in {} |-> x]
\* the maps that either lack key k or bind it to a value of V
Opt(k, V) == {EmptyMap} \cup {k :> v : v \in V}
Merge(A, B) == {a @@ b : a \in A, b \in B}

\* Maps a client can send as a component's state (JSON values): any subset
\* of the state keys, with the identity fields, a private field, a method
\* name, or keys the component does not have.
ClientMaps ==
    Merge(Opt(N_count, {Num(5)}),
    Merge(Opt(N_loading, Flags),
    Merge(Opt(N_items, {Arr(<<1>>)}),
          {EmptyMap,
           (N_id :> Str("evil")) @@ (N_name :> Str("evil"))
               @@ (N_secret :> Str("evil")) @@ (N_addUser :> Str("evil"))
               @@ (N_bogus :> Str("evil")) @@ (N_onChange :> Str("evil")),
           (N_hasOwnProperty :> Num(1))})))

\* new ComponentClass(initialValue, id): the instance a constructor leaves
\* behind (fields initialised, then id and name set by Component's
\* constructor).
NewObject(className, id, initialValue) ==
    (N_id :> Str(id)) @@ (N_name :> Str(className))
    @@ (IF className = "CounterComponent"
        THEN (N_count :> initialValue)
        ELSE (N_loading :> Bool(FALSE)) @@ (N_items :> Arr(<<>>)))

(***************************************************************************)
(* The component manager: the ids its components are stored under and the  *)
(* component objects (a heap: the registry and an in-flight call hold      *)
(* references to the same object).                                         *)
(***************************************************************************)
Ids == {"a", "b"}
\* places for objects: one per id, one for the object a call still
\* holds after its id was given to another, one for an object being built
Oids == {1, 2, 3, 4}
NoObject == EmptyMap
NoParams == [name |-> "", idArg |-> "", withOptions |-> FALSE]

\* The state maps a client sends with a call on a component of the class
\* named: the state blob of its document, or nothing.
StatesFor ==
    [className \in ClassNames |->
        {EmptyMap, N_hasOwnProperty :> Num(1)} \cup
        (IF className = "CounterComponent"
         THEN {N_count :> c : c \in Counts}
         ELSE {(N_loading :> Bool(FALSE)) @@ (N_items :> it) :
                  it \in ItemVals})]

\* a client that sends no state
NoState == [className \in ClassNames |-> {EmptyMap}]

\* JSON.parse(JSON.stringify(state)): a deep copy that shares nothing with
\* the component and drops what JSON cannot carry.
JsonCopy(state) ==
    [p \in {q \in DOMAIN state : state[q].t \notin {"function", "undefined"}}
        |-> state[p]]

\* JSON.stringify(m[key]): undefined for a key the map lacks.
Stringify(m, key) == IF key \in DOMAIN m THEN m[key] ELSE Undefined

\* Mutant: values compared by reference, so an array (an object) never
\* equals its copy in the snapshot.
ChangedKeysByReference(oldState, newState) ==
    {key \in DOMAIN newState :
        \/ newState[key].t = "object"
        \/ Stringify(oldState, key) # Stringify(newState, key)}

\* handleComponentCall, the diff: the keys of the new state whose JSON
\* serialization differs from the snapshot's.
ChangedKeys(oldState, newState) ==
    {key \in DOMAIN newState :
        Stringify(oldState, key) # Stringify(newState, key)}

\* NodeWireManager.getReactiveProperties: the state keys that start with $
GetReactiveProperties(obj) ==
    {key \in DOMAIN GetState(obj) : StartsWith(key, "$")}

SyncMethods == {N_increment, N_reset, N_removeItem, N_fail}
AsyncMethods == {N_addUser, N_stageItem}
\* a name a client can ask for that is no method of any component
NotCallable == {N_bogus}
MethodNames == SyncMethods \cup AsyncMethods \cup NotCallable

Push(arr) == Arr(Append(arr.v, Len(arr.v) + 1))
Pop(arr) == Arr(SubSeq(arr.v, 1, Len(arr.v) - 1))
Filter(arr, x) == Arr(SelectSeq(arr.v, LAMBDA i : i # x))

\* typeof component[method] === 'function'
IsCallable(obj, method) == IsFunction(obj, method)

\* The part of a method that runs synchronously inside the call: the whole
\* method when it is synchronous, up to its first await otherwise.
RunSync(obj, method, arg) ==
    CASE method = N_increment ->
            [obj EXCEPT ![N_count] = Num(obj[N_count].v + 1)]
      [] method = N_reset -> [obj EXCEPT ![N_count] = Num(0)]
      [] method = N_removeItem ->
            [obj EXCEPT ![N_items] = Filter(obj[N_items], arg)]
      [] method = N_addUser -> [obj EXCEPT ![N_loading] = Bool(TRUE)]
      [] method = N_stageItem ->
            [obj EXCEPT ![N_items] = Push(obj[N_items])]
      [] OTHER -> obj

\* whether the synchronous part throws
ThrowsSync(method) == method = N_fail

\* the properties whose array object the synchronous part replaces
ReplacedBySync(method) == IF method = N_removeItem THEN {N_items} ELSE {}

\* The rest of an asynchronous method, run when the operation it awaits
\* resolves or rejects; its promise settles the same way.
RunCompletion(obj, method, outcome) ==
    CASE method = N_addUser /\ outcome = "resolve" ->
            [obj EXCEPT ![N_items] = Push(obj[N_items]),
                        ![N_loading] = Bool(FALSE)]
      [] method = N_addUser /\ outcome = "reject" ->
            [obj EXCEPT ![N_loading] = Bool(FALSE)]
      [] method = N_stageItem /\ outcome = "reject" ->
            [obj EXCEPT ![N_items] = Pop(obj[N_items])]
      [] OTHER -> obj

\* the arguments a method is called with: removeItem takes the id of the
\* last item or an id no item has
ArgsFor(obj, method) ==
    IF method = N_removeItem /\ N_items \in DOMAIN obj
    THEN {0, Len(obj[N_items].v)}
    ELSE {0}

\* the bound on the model's values: the method's writes stay within it
WithinBounds(obj, method) ==
    /\ method = N_increment => obj[N_count].v < MaxCount
    /\ method = N_stageItem => Len(obj[N_items].v) < MaxLen

VARIABLES
    \* the component setState / getState act on, the component before the
    \* last setState, the map given to it, and the last operation
    \* and whether it threw
    target, targetBefore, incoming, stOp, stThrew,
    \* NodeWireManager: componentRegistry, components (id -> object),
    \* componentInitialParams, and the component objects
    componentRegistry, components, componentInitialParams, heap,
    \* the asynchronous handleComponentCall in flight, with its closure
    call,
    \* whether the process is running
    procAlive,
    \* what the last step returned or passed to the callback
    out,
    \* the template engine: the view files, the renderer cache, the cache
    \* switch, and what the last operation returned
    files, cache, cacheEnabled, viewOut,
    \* the template language: the last use of the parser, the compiler or
    \* the marker pass, with what it was given and what it produced
    blade,
    \* the controller objects with their req and res fields, the route
    \* handlers that were entered, each with its closure, and what was sent
    \* on each request's response object
    controllers, handlers, responses

stVars == <<target, targetBefore, incoming, stOp, stThrew>>

mgrVars ==
    <<componentRegistry, components, componentInitialParams, heap, call,
      procAlive, out>>

viewVars == <<files, cache, cacheEnabled, viewOut>>

bladeVars == <<blade>>

ctlVars == <<controllers, handlers, responses>>

vars == <<stVars, mgrVars, viewVars, bladeVars, ctlVars>>

(***************************************************************************)
(* The template engine (BladeEngine; ViewEngine is the same code): view    *)
(* files with the version of their contents, and the compiled renderers,   *)
(* each known by the version of the source it was compiled from.           *)
(***************************************************************************)
ViewNames == {<<"home">>, <<"list">>}
\* the template paths a caller passes: with or without the extension
ViewPaths == ViewNames \cup {<<"home", ".view">>}
NoFile == [exists |-> FALSE, version |-> 0]
NoRenderer == 0
NoViewOut ==
    [op |-> "none", name |-> <<>>, threw |-> FALSE, executed |-> NoRenderer,
     compiled |-> FALSE, cachedBefore |-> NoRenderer, source |-> NoFile]

\* templatePath.replace(/\.view$/, '')
Normalize(templatePath) ==
    IF Len(templatePath) > 1 /\ templatePath[Len(templatePath)] = ".view"
    THEN SubSeq(templatePath, 1, Len(templatePath) - 1)
    ELSE templatePath

ViewIdle ==
    /\ files = [n \in ViewNames |-> NoFile]
    /\ cache = [n \in ViewNames |-> NoRenderer]
    /\ cacheEnabled = FALSE
    /\ viewOut = NoViewOut

\* nothing parsed, compiled or marked yet
NoBlade == [op |-> "none"]

BladeIdle == blade = NoBlade

(***************************************************************************)
(* Controllers (BaseController) and the requests routed to them.  A        *)
(* request and its response object are known by the number of the request. *)
(***************************************************************************)
MaxRequests == 3

Requests == 1..MaxRequests

\* the null of a field that was never assigned
Null == "null"

\* the controller object a route was registered with
SharedInstance == <<"instance">>

\* the controller object registerControllerRoute creates for a request
NewInstance(r) == <<"new", r>>

Instances == {SharedInstance} \cup {NewInstance(r) : r \in Requests}

\* public req = null; public res = null
NewController == [req |-> Null, res |-> Null]

\* a request that has not arrived
NoHandler == [pc |-> "none"]

\* no route was entered: the one controller the routes were registered
\* with, nothing sent
CtlIdle ==
    /\ controllers = [i \in {SharedInstance} |-> NewController]
    /\ handlers = [r \in Requests |-> NoHandler]
    /\ responses = [r \in Requests |-> <<>>]

(***************************************************************************)
(* The state of the manager.                                               *)
(***************************************************************************)
\* the closure of an asynchronous call: no call in flight
IdleCall ==
    [pc |-> "idle", oid |-> 0, id |-> "", method |-> "", hasCb |-> FALSE,
     oldState |-> EmptyMap, reactiveProps |-> {}, last |-> EmptyMap,
     aliased |-> {}, seen |-> EmptyMap, timeout0 |-> FALSE,
     interval |-> FALSE, cleanupChanged |-> {}]

\* what a step hands back: nothing
NoOut ==
    [op |-> "none", id |-> "", name |-> "", method |-> "", returned |-> "none",
     success |-> FALSE, error |-> "", threw |-> FALSE, executed |-> FALSE,
     oldState |-> EmptyMap, preState |-> EmptyMap, newState |-> EmptyMap,
     updates |-> EmptyMap, invoked |-> FALSE, completed |-> FALSE,
     delivered |-> {}, differing |-> {}, cleanupChanged |-> {},
     outstanding |-> FALSE, cancels |-> 0, interval |-> FALSE,
     before |-> EmptyMap]

\* the objects something still refers to
Live(comps, c) ==
    ({comps[i] : i \in Ids} \cup (IF c.pc = "idle" THEN {} ELSE {c.oid})) \ {0}

\* the heap with the unreachable objects collected
Collect(h, comps, c) ==
    LET live == Live(comps, c) IN
    [o \in Oids |-> IF o \in live THEN h[o] ELSE NoObject]

\* the place of a new object
FreeOid ==
    LET free == Oids \ Live(components, call) IN
    CHOOSE o \in free : \A q \in free : o <= q

\* no callback queued with process.nextTick is waiting, and the last
\* result has been taken: timers and I/O callbacks run only then
MacrotaskTurn == procAlive /\ call.pc # "settled" /\ out.op = "none"

\* Requests and creations are followed while no call is winding down.
RequestTurn == MacrotaskTurn /\ call.pc \in {"idle", "running"}

MgrInit ==
    /\ componentRegistry = {}
    /\ components = [i \in Ids |-> 0]
    /\ componentInitialParams = [i \in Ids |-> NoParams]
    /\ heap = [o \in Oids |-> NoObject]
    /\ call = IdleCall
    /\ procAlive = TRUE
    /\ out = NoOut

StIdle ==
    /\ target = NoObject
    /\ targetBefore = NoObject
    /\ incoming = EmptyMap
    /\ stOp = "none"
    /\ stThrew = FALSE

\* NodeWireManager.registerComponent
RegisterComponent(name) ==
    /\ RequestTurn
    /\ name \notin componentRegistry
    /\ componentRegistry' = componentRegistry \cup {name}
    /\ UNCHANGED <<components, componentInitialParams, heap, call, procAlive,
                   out>>
    /\ UNCHANGED <<stVars, viewVars, bladeVars, ctlVars>>

\* The effect shared by createComponent and createComponentWithOptions:
\* the instance is built (with the id given to the constructor, else a
\* fresh uuid), stored under its id, and its parameters are saved.
StoreNew(op, name, newId, idArg, withOptions) ==
    /\ components' = [components EXCEPT ![newId] = FreeOid]
    /\ componentInitialParams' =
          [componentInitialParams EXCEPT
              ![newId] = [name |-> name, idArg |-> idArg,
                          withOptions |-> withOptions]]
    /\ heap' = Collect([heap EXCEPT ![FreeOid] = NewObject(name, newId, Num(0))],
                       components', call)
    /\ out' = [NoOut EXCEPT !.op = op, !.id = newId, !.name = name,
                            !.returned = "resolved", !.before = components]
    /\ UNCHANGED <<componentRegistry, call, procAlive>>
    /\ UNCHANGED <<stVars, viewVars, bladeVars, ctlVars>>

\* the ids uuidv4() can return: those no component is stored under
FreshIds ==
    {i \in Ids : components[i] = 0 /\ componentInitialParams[i] = NoParams}

\* NodeWireManager.createComponent(name, initialValue, id?)
CreateComponent(name, idArg) ==
    /\ RequestTurn
    /\ name \in componentRegistry
    /\ \E newId \in (IF idArg = "" THEN FreshIds ELSE {idArg}) :
          StoreNew("create", name, newId, idArg, FALSE)

\* NodeWireManager.createComponentWithOptions(name, options): the options
\* are matched to the constructor's parameters by name; `id` is one.
CreateComponentWithOptions(name, options) ==
    /\ RequestTurn
    /\ name \in componentRegistry
    /\ LET idArg == IF "id" \in DOMAIN options THEN options["id"] ELSE "" IN
       \E newId \in (IF idArg = "" THEN FreshIds ELSE {idArg}) :
          StoreNew("createWithOptions", name, newId, idArg, TRUE)

(***************************************************************************)
(* handleComponentCall.                                                    *)
(***************************************************************************)
\* Lines 178-231, no component stored under the id: one is recreated from
\* its saved parameters, else a new one of the class the request names is
\* built; err is the message of the error thrown, if any.
LocateMissing(id, componentName) ==
    IF componentInitialParams[id] # NoParams
    THEN LET initialParams == componentInitialParams[id]
             built == NewObject(initialParams.name,
                                IF initialParams.idArg # ""
                                THEN initialParams.idArg ELSE id,
                                Num(0))
             newId == built[N_id].v
             comps1 == [i \in Ids |-> IF i = newId THEN 0 ELSE components[i]]
             params1 == [i \in Ids |-> IF i = newId THEN NoParams
                                       ELSE componentInitialParams[i]]
         IN  IF initialParams.name \notin componentRegistry
             THEN [err |-> "no encontrado", comps |-> components,
                   params |-> componentInitialParams, heap |-> heap, oid |-> 0]
             ELSE [err |-> "",
                   comps |-> [comps1 EXCEPT ![id] = FreeOid],
                   params |-> [params1 EXCEPT ![id] = initialParams],
                   heap |-> [heap EXCEPT ![FreeOid] =
                                [built EXCEPT ![N_id] = Str(id)]],
                   oid |-> FreeOid]
    ELSE IF componentName \notin componentRegistry
         THEN [err |-> "no encontrado", comps |-> components,
               params |-> componentInitialParams, heap |-> heap, oid |-> 0]
         ELSE [err |-> "",
               comps |-> [components EXCEPT ![id] = FreeOid],
               params |-> componentInitialParams,
               heap |-> [heap EXCEPT ![FreeOid] =
                            NewObject(componentName, id, Num(0))],
               oid |-> FreeOid]

\* Mutant: a call on an id whose component a suspended call holds gets an
\* instance of its own.
LocateIsolated(id, componentName) ==
    IF components[id] # 0 /\ ~(call.pc = "running" /\ call.id = id)
    THEN [err |-> "", comps |-> components, params |-> componentInitialParams,
          heap |-> heap, oid |-> components[id]]
    ELSE LocateMissing(id, componentName)

\* Lines 174-177: the component stored under the id is used, whoever else
\* holds it; lines 178-231 run when there is none.
Locate(id, componentName) ==
    IF components[id] # 0
    THEN [err |-> "", comps |-> components, params |-> componentInitialParams,
          heap |-> heap, oid |-> components[id]]
    ELSE LocateMissing(id, componentName)

\* Mutant: the error is thrown on to the caller.
CaughtRethrows(message) ==
    [returned |-> "rejected", success |-> FALSE, error |-> message]

\* Lines 346-352: the catch block turns any error into a failure result.
Caught(message) ==
    [returned |-> "resolved", success |-> FALSE,
     error |-> IF message = "" THEN "Error desconocido" ELSE message]

\* the result record of a failed call
Failure(op, id, name, method, message, threw, executed, oldState) ==
    LET c == Caught(message) IN
    [NoOut EXCEPT !.op = op, !.id = id, !.name = name, !.method = method,
                  !.returned = c.returned, !.success = c.success,
                  !.error = c.error, !.threw = threw, !.executed = executed,
                  !.oldState = oldState, !.before = components]

\* Lines 316-345: the new state, the changed keys with their new values,
\* and the rendering, which may throw.
Finish(op, id, name, method, obj, oldState, preState, renderOk) ==
    LET newState == GetState(obj)
        updates == [k \in ChangedKeys(oldState, newState) |-> newState[k]]
    IN  IF renderOk
        THEN [NoOut EXCEPT !.op = op, !.id = id, !.name = name,
                    !.method = method, !.returned = "resolved",
                    !.success = TRUE, !.executed = TRUE,
                    !.oldState = oldState, !.preState = preState,
                    !.newState = newState, !.updates = updates,
                    !.before = components]
        ELSE [Failure(op, id, name, method, "render", FALSE, TRUE, oldState)
                    EXCEPT !.preState = preState]

\* The closure of a call in flight holds, as last observed value of an
\* array property, the component's own array (lines 249 and 260 copy the
\* reference) until line 274 stores a deep copy.  When the component gets
\* a new array object the closure keeps the old one, with its contents.
BreakAlias(c, oid, objBefore, props) ==
    IF c.pc = "idle" \/ c.oid # oid \/ c.aliased = {} THEN c
    ELSE [c EXCEPT
            !.last = [p \in DOMAIN c.last |->
                        IF p \in props \cap c.aliased THEN objBefore[p]
                        ELSE c.last[p]],
            !.aliased = c.aliased \ props]

\* lastReactiveState[prop] as the closure sees it
LastValue(c, obj, p) == IF p \in c.aliased THEN obj[p] ELSE c.last[p]

\* NodeWireManager.handleComponentCall(id, componentName, method, [arg],
\* state, viewsPath, onReactiveUpdate), up to its return or to the await
\* of an asynchronous method.
HandleComponentCall(id, componentName, method, arg, state, hasCb, renderOk) ==
    LET loc == Locate(id, componentName)
        oid == loc.oid
        obj0 == loc.heap[oid]
        oldState == JsonCopy(GetState(obj0))
        obj1 == SetState(obj0, state)
        call1 == BreakAlias(call, oid, obj0,
                            GetPublicProperties(obj0) \cap DOMAIN state)
        reactiveProps == GetReactiveProperties(obj1)
        obj2 == RunSync(obj1, method, arg)
        call2 == BreakAlias(call1, oid, obj1, ReplacedBySync(method))
        preState == JsonCopy(GetState(obj1))
    IN
    /\ RequestTurn
    /\ UNCHANGED <<componentRegistry, procAlive>>
    /\ UNCHANGED <<stVars, viewVars, bladeVars, ctlVars>>
    /\ IF loc.err # ""
       THEN /\ out' = Failure("call", id, componentName, method, loc.err,
                              FALSE, FALSE, EmptyMap)
            /\ UNCHANGED <<components, componentInitialParams, heap, call>>
       ELSE
       /\ components' = loc.comps
       /\ componentInitialParams' = loc.params
       /\ IF SetStateThrows(obj0, state)
          THEN /\ call' = call
               /\ heap' = Collect(loc.heap, components', call')
               /\ out' = [Failure("call", id, componentName, method,
                                  "state.hasOwnProperty", FALSE, FALSE,
                                  oldState)
                             EXCEPT !.preState = preState]
          ELSE IF ~IsCallable(obj1, method)
          THEN /\ call' = call1
               /\ heap' = Collect([loc.heap EXCEPT ![oid] = obj1],
                                  components', call')
               /\ out' = [Failure("call", id, componentName, method,
                                  "no existe", FALSE, FALSE, oldState)
                             EXCEPT !.preState = preState]
          ELSE IF ThrowsSync(method)
          THEN /\ call' = call1
               /\ heap' = Collect([loc.heap EXCEPT ![oid] = obj1],
                                  components', call')
               /\ out' = [Failure("call", id, componentName, method,
                                  "thrown", TRUE, TRUE, oldState)
                             EXCEPT !.preState = preState]
          ELSE
          /\ WithinBounds(obj1, method)
          /\ arg \in ArgsFor(obj1, method)
          /\ IF method \in AsyncMethods
             THEN /\ call.pc = "idle"
                  /\ call' =
                       [IdleCall EXCEPT
                          !.pc = "running", !.oid = oid, !.id = id,
                          !.method = method, !.hasCb = hasCb,
                          !.oldState = oldState,
                          !.reactiveProps =
                              IF hasCb THEN reactiveProps ELSE {},
                          !.last = IF hasCb
                                   THEN [p \in reactiveProps |-> obj1[p]]
                                   ELSE EmptyMap,
                          !.aliased =
                              IF hasCb
                              THEN {p \in reactiveProps : obj1[p].t = "object"}
                              ELSE {},
                          !.seen = IF hasCb
                                   THEN [p \in reactiveProps |-> obj1[p]]
                                   ELSE EmptyMap,
                          !.timeout0 = hasCb, !.interval = hasCb]
                  /\ out' = [NoOut EXCEPT !.op = "start", !.id = id,
                                !.name = componentName, !.method = method,
                                !.executed = TRUE, !.oldState = oldState,
                                !.preState = preState,
                                !.before = components]
             ELSE /\ call' = call2
                  /\ out' = Finish("call", id, componentName, method, obj2,
                                   oldState, preState, renderOk)
          /\ heap' = Collect([loc.heap EXCEPT ![oid] = obj2],
                             components', call')

\* a call of a synchronous method, or of a name that is no method
CallSync(ids, names, States, methods) ==
    \E id \in ids, name \in names, method \in methods \ AsyncMethods,
       renderOk \in BOOLEAN :
       \E state \in States[name],
          arg \in (IF method = N_removeItem THEN 0 .. MaxLen ELSE {0}) :
          HandleComponentCall(id, name, method, arg, state, FALSE, renderOk)

\* a call of an asynchronous method, with or without onReactiveUpdate
CallAsync(ids, names, States, methods, callbacks) ==
    \E id \in ids, name \in names, method \in methods \cap AsyncMethods,
       hasCb \in callbacks :
       \E state \in States[name] :
          HandleComponentCall(id, name, method, 0, state, hasCb, TRUE)

(***************************************************************************)
(* The asynchronous branch (lines 255-311): the detection pass, the two    *)
(* timers, the settlement of the method and the final pass.                *)
(***************************************************************************)
\* checkAndSendUpdates (lines 263-286) on component obj: the properties
\* found changed are recorded as observed before rendering; rendering or
\* the callback may throw.
CheckAndSendUpdates(c, obj, renderOk, cbOk) ==
    LET changed == {p \in c.reactiveProps : obj[p] # LastValue(c, obj, p)}
    IN  [call |-> [c EXCEPT
                     !.last = [p \in DOMAIN c.last |->
                                 IF p \in changed THEN obj[p] ELSE c.last[p]],
                     !.aliased = c.aliased \ changed,
                     !.seen = [p \in DOMAIN c.seen |-> obj[p]]],
         changed |-> changed,
         differing |-> {p \in c.reactiveProps : obj[p] # c.seen[p]},
         invoked |-> changed # {} /\ renderOk,
         threw |-> changed # {} /\ (~renderOk \/ ~cbOk)]

\* what a pass hands to the callback, for the record
PassOut(op, c, r, after) ==
    [NoOut EXCEPT !.op = op, !.id = c.id, !.method = c.method,
                  !.invoked = r.invoked, !.completed = ~r.threw,
                  !.threw = r.threw,
                  !.delivered = IF r.invoked THEN r.changed ELSE {},
                  !.differing = r.differing,
                  !.cleanupChanged = c.cleanupChanged,
                  !.outstanding = (c.pc = "running"),
                  !.interval = after.interval]

\* the closure after a timer callback: it is garbage once the call has
\* finished and no timer refers to it
Release(c) ==
    IF c.pc = "finished" /\ ~c.timeout0 /\ ~c.interval THEN IdleCall ELSE c

\* The callback of setTimeout(..., 0) (lines 290-292).  An error thrown
\* in a timer callback is uncaught: the process ends unless the host
\* handles it.
TimeoutTick(renderOk, cbOk) ==
    /\ MacrotaskTurn
    /\ call.timeout0
    /\ LET r == CheckAndSendUpdates(call, heap[call.oid], renderOk, cbOk)
           after == Release([r.call EXCEPT !.timeout0 = FALSE])
       IN  /\ (renderOk /\ cbOk) \/ r.threw
           /\ call' = after
           /\ out' = PassOut("timeout", call, r, after)
           /\ heap' = Collect(heap, components, after)
           /\ IF r.threw THEN procAlive' \in BOOLEAN ELSE procAlive' = TRUE
    /\ UNCHANGED <<componentRegistry, components, componentInitialParams>>
    /\ UNCHANGED <<stVars, viewVars, bladeVars, ctlVars>>

\* A tick of setInterval(checkAndSendUpdates, 50) (line 295); the timeout
\* of 0 ms is due before the first tick.
IntervalTick(renderOk, cbOk) ==
    /\ MacrotaskTurn
    /\ call.interval
    /\ ~call.timeout0
    /\ LET r == CheckAndSendUpdates(call, heap[call.oid], renderOk, cbOk)
       IN  /\ (renderOk /\ cbOk) \/ r.threw
           /\ call' = r.call
           /\ out' = PassOut("interval", call, r, r.call)
           /\ IF r.threw THEN procAlive' \in BOOLEAN ELSE procAlive' = TRUE
    /\ UNCHANGED <<componentRegistry, components, componentInitialParams, heap>>
    /\ UNCHANGED <<stVars, viewVars, bladeVars, ctlVars>>

\* The operation an asynchronous method awaits resolves or rejects: the
\* method runs to its end, its promise settles, and handleComponentCall
\* resumes after its await (lines 299-352) in the same turn: it queues the
\* final pass with process.nextTick and returns its result.
Settle(outcome, renderOk) ==
    /\ MacrotaskTurn
    /\ call.pc = "running"
    /\ outcome = "resolve" /\ call.method = N_addUser
          => Len(heap[call.oid][N_items].v) < MaxLen
    /\ LET obj == heap[call.oid]
           done == RunCompletion(obj, call.method, outcome)
           changed == {p \in call.reactiveProps : done[p] # obj[p]}
           name == obj[N_name].v
       IN  /\ call' = IF call.hasCb
                      THEN [call EXCEPT !.pc = "settled",
                                        !.cleanupChanged = changed]
                      ELSE IdleCall
           /\ heap' = Collect([heap EXCEPT ![call.oid] = done],
                              components, call')
           /\ out' = IF outcome = "reject"
                     THEN Failure("settle", call.id, name, call.method,
                                  "rejected", TRUE, TRUE, call.oldState)
                     ELSE Finish("settle", call.id, name, call.method, done,
                                 call.oldState, EmptyMap, renderOk)
    /\ UNCHANGED <<componentRegistry, components, componentInitialParams,
                   procAlive>>
    /\ UNCHANGED <<stVars, viewVars, bladeVars, ctlVars>>

\* The callback queued with process.nextTick (lines 305-309): one more
\* pass, then clearInterval.  If the pass throws, clearInterval is not
\* reached and the error is uncaught.
FinalPass(renderOk, cbOk) ==
    /\ procAlive
    /\ out.op = "none"
    /\ call.pc = "settled"
    /\ LET r == CheckAndSendUpdates(call, heap[call.oid], renderOk, cbOk)
           after ==
              IF r.threw
              THEN [r.call EXCEPT !.pc = "leaked"]
              ELSE Release([r.call EXCEPT !.pc = "finished",
                                          !.interval = FALSE])
       IN  /\ (renderOk /\ cbOk) \/ r.threw
           /\ call' = after
           /\ out' = [PassOut("final", call, r, after) EXCEPT
                         !.cancels = IF r.threw THEN 0 ELSE 1]
           /\ heap' = Collect(heap, components, after)
           /\ IF r.threw THEN procAlive' \in BOOLEAN ELSE procAlive' = TRUE
    /\ UNCHANGED <<componentRegistry, components, componentInitialParams>>
    /\ UNCHANGED <<stVars, viewVars, bladeVars, ctlVars>>

\* NodeWireManager.cleanup: it removes nothing
Cleanup ==
    /\ RequestTurn
    /\ out' = [NoOut EXCEPT !.op = "cleanup", !.returned = "resolved",
                            !.before = components]
    /\ UNCHANGED <<componentRegistry, components, componentInitialParams,
                   heap, call, procAlive>>
    /\ UNCHANGED <<stVars, viewVars, bladeVars, ctlVars>>

\* the caller, or the callback, takes what the last step handed over
Taken ==
    /\ out.op # "none"
    /\ out' = NoOut
    /\ UNCHANGED <<componentRegistry, components, componentInitialParams,
                   heap, call, procAlive>>
    /\ UNCHANGED <<stVars, viewVars, bladeVars, ctlVars>>

\* Calls on one component, of either class, with every client state and
\* method, with and without onReactiveUpdate.
CallNext ==
    \/ \E name \in ClassNames : RegisterComponent(name)
    \/ CallSync({"a"}, ClassNames, StatesFor, MethodNames)
    \/ CallAsync({"a"}, ClassNames, StatesFor, MethodNames, BOOLEAN)
    \/ \E renderOk \in BOOLEAN, cbOk \in BOOLEAN : TimeoutTick(renderOk, cbOk)
    \/ \E renderOk \in BOOLEAN, cbOk \in BOOLEAN : IntervalTick(renderOk, cbOk)
    \/ \E outcome \in {"resolve", "reject"}, renderOk \in BOOLEAN :
          Settle(outcome, renderOk)
    \/ \E renderOk \in BOOLEAN, cbOk \in BOOLEAN : FinalPass(renderOk, cbOk)
    \/ Taken

\* a new manager; nothing else in use
MgrStart == MgrInit /\ StIdle /\ ViewIdle /\ BladeIdle /\ CtlIdle

SpecCall == MgrStart /\ [][CallNext]_vars

\* Components of a registered class created with and without an id, and
\* calls without onReactiveUpdate that send no state, for a registered and
\* for an unregistered class name; the asynchronous action fails.
MgrNext ==
    \/ RegisterComponent("UsersComponent")
    \/ \E idArg \in Ids \cup {""} : CreateComponent("UsersComponent", idArg)
    \/ \E options \in {EmptyMap} \cup {"id" :> i : i \in Ids} :
          CreateComponentWithOptions("UsersComponent", options)
    \/ CallSync(Ids, ClassNames, NoState, {N_removeItem, N_fail, N_bogus})
    \/ CallAsync(Ids, ClassNames, NoState, {N_addUser}, {FALSE})
    \/ Settle("reject", TRUE)
    \/ Cleanup
    \/ Taken

SpecManager == MgrStart /\ [][MgrNext]_vars

(***************************************************************************)
(* Component.setState and getState on one component: an instance with a    *)
(* counter, two volatile properties, a private field and a field that      *)
(* holds a callback.                                                       *)
(***************************************************************************)
StInit ==
    /\ MgrInit
    /\ ViewIdle
    /\ BladeIdle
    /\ CtlIdle
    /\ \E c \in Counts, l \in Flags, it \in ItemVals :
          target = [NewObject("UsersComponent", "a", Num(0))
                        EXCEPT ![N_loading] = l, ![N_items] = it]
                   @@ (N_count :> c) @@ (N_secret :> Str("s0"))
                   @@ (N_onChange :> Fn)
    /\ targetBefore = target
    /\ incoming = EmptyMap
    /\ stOp = "new"
    /\ stThrew = FALSE

\* component.setState(m)
StSetState(m) ==
    /\ target' = SetState(target, m)
    /\ targetBefore' = target
    /\ incoming' = m
    /\ stOp' = "setState"
    /\ stThrew' = SetStateThrows(target, m)
    /\ UNCHANGED <<mgrVars, viewVars, bladeVars, ctlVars>>

\* a method of the component writes a private field
StTouchPrivate ==
    /\ target[N_secret] = Str("s0")
    /\ target' = [target EXCEPT ![N_secret] = Str("s1")]
    /\ targetBefore' = target
    /\ incoming' = EmptyMap
    /\ stOp' = "touch"
    /\ stThrew' = FALSE
    /\ UNCHANGED <<mgrVars, viewVars, bladeVars, ctlVars>>

StNext ==
    \/ \E m \in ClientMaps : StSetState(m)
    \/ StTouchPrivate

SpecState == StInit /\ [][StNext]_vars

(***************************************************************************)
(* BladeEngine.render, compile and clearCache, and the file system under   *)
(* the views directory.  A renderer is known by the version of the source  *)
(* it was compiled from.                                                   *)
(***************************************************************************)
ViewInit ==
    /\ MgrInit
    /\ StIdle
    /\ BladeIdle
    /\ CtlIdle
    /\ files \in [ViewNames -> {NoFile, [exists |-> TRUE, version |-> 1]}]
    /\ cache = [n \in ViewNames |-> NoRenderer]
    /\ cacheEnabled \in BOOLEAN
    /\ viewOut = NoViewOut

\* BladeEngine.compile(templateContent, templateName): the cached renderer
\* of that name when caching is enabled and there is one; else a renderer
\* compiled from the content, stored when caching is enabled.
Compile(templateContent, templateName) ==
    IF cacheEnabled /\ cache[templateName] # NoRenderer
    THEN [renderer |-> cache[templateName], cache |-> cache,
          compiled |-> FALSE]
    ELSE [renderer |-> templateContent,
          cache |-> IF cacheEnabled
                    THEN [cache EXCEPT ![templateName] = templateContent]
                    ELSE cache,
          compiled |-> TRUE]

\* BladeEngine.render(templatePath, data): the file is looked up and read
\* first; a missing file is an error; then compile, then execute.
Render(templatePath) ==
    LET normalizedPath == Normalize(templatePath)
        file == files[normalizedPath]
        c == Compile(file.version, normalizedPath)
        res == [NoViewOut EXCEPT !.op = "render", !.name = normalizedPath,
                                 !.cachedBefore = cache[normalizedPath],
                                 !.source = file]
    IN  /\ IF ~file.exists
           THEN /\ viewOut' = [res EXCEPT !.threw = TRUE]
                /\ cache' = cache
           ELSE /\ viewOut' = [res EXCEPT !.executed = c.renderer,
                                          !.compiled = c.compiled]
                /\ cache' = c.cache
        /\ UNCHANGED <<files, cacheEnabled>>
        /\ UNCHANGED <<stVars, mgrVars, bladeVars, ctlVars>>

\* BladeEngine.clearCache
ClearCache ==
    /\ cache' = [n \in ViewNames |-> NoRenderer]
    /\ viewOut' = [NoViewOut EXCEPT !.op = "clearCache"]
    /\ UNCHANGED <<files, cacheEnabled>>
    /\ UNCHANGED <<stVars, mgrVars, bladeVars, ctlVars>>

\* the template source is written with new contents
EditFile(name) ==
    /\ files[name].version < MaxVersion
    /\ files' = [files EXCEPT ![name] =
                    [exists |-> TRUE, version |-> files[name].version + 1]]
    /\ viewOut' = [NoViewOut EXCEPT !.op = "edit", !.name = name]
    /\ UNCHANGED <<cache, cacheEnabled>>
    /\ UNCHANGED <<stVars, mgrVars, bladeVars, ctlVars>>

\* the template source is removed
DeleteFile(name) ==
    /\ files[name].exists
    /\ files' = [files EXCEPT ![name].exists = FALSE]
    /\ viewOut' = [NoViewOut EXCEPT !.op = "delete", !.name = name]
    /\ UNCHANGED <<cache, cacheEnabled>>
    /\ UNCHANGED <<stVars, mgrVars, bladeVars, ctlVars>>

ViewNext ==
    \/ \E templatePath \in ViewPaths : Render(templatePath)
    \/ ClearCache
    \/ \E name \in ViewNames : EditFile(name)
    \/ \E name \in ViewNames : DeleteFile(name)

SpecView == ViewInit /\ [][ViewNext]_vars

(***************************************************************************)
(* Text.  A string is the sequence of its characters.                      *)
(***************************************************************************)
\* the strings over an alphabet, up to a length
StringsOver(alphabet, maxLen) ==
    UNION {[1..n -> alphabet] : n \in 0..maxLen}

\* the lexeme of the grave accent that opens and closes a template literal
BackQuote == "backquote"

IsPrefix(p, s) == Len(p) <= Len(s) /\ SubSeq(s, 1, Len(p)) = p

IsSuffix(p, s) ==
    Len(p) <= Len(s) /\ SubSeq(s, Len(s) - Len(p) + 1, Len(s)) = p

\* the first index at or after from where p occurs in s, 0 if none
\* the least and the greatest of a non-empty set of indexes
Least(indexes) == CHOOSE i \in indexes : \A j \in indexes : i <= j

Greatest(indexes) == CHOOSE i \in indexes : \A j \in indexes : i >= j

IndexOf(s, p, from) ==
    LET hits == {i \in from..(Len(s) - Len(p) + 1) :
                    SubSeq(s, i, i + Len(p) - 1) = p}
    IN  IF hits = {} THEN 0 ELSE Least(hits)

Contains(s, p) == IndexOf(s, p, 1) # 0

\* s.replace(/p/g, r) for a literal p: matches are found left to right and
\* do not overlap
RECURSIVE ReplaceAll(_, _, _)
ReplaceAll(s, p, r) ==
    LET i == IndexOf(s, p, 1)
    IN  IF i = 0 THEN s
        ELSE SubSeq(s, 1, i - 1) \o r
             \o ReplaceAll(SubSeq(s, i + Len(p), Len(s)), p, r)

\* s.split(sep) for a one-character separator
RECURSIVE Split(_, _)
Split(s, sep) ==
    LET i == IndexOf(s, <<sep>>, 1)
    IN  IF i = 0 THEN <<s>>
        ELSE <<SubSeq(s, 1, i - 1)>> \o Split(SubSeq(s, i + 1, Len(s)), sep)

(***************************************************************************)
(* Template names and the files they resolve to.  path.join is that of a   *)
(* POSIX host: "/" separates, a backslash is an ordinary character.        *)
(***************************************************************************)
PathChars == {".", "/", "\\", "a"}
DotView == <<".", "v", "i", "e", "w">>
\* the names a caller or a template can give
TemplateNames ==
    LET short == StringsOver(PathChars, MaxPath)
    IN  short \cup {n \o DotView : n \in StringsOver(PathChars, 1)}
\* config.viewsPath, as the list of its directories
ViewsPath == <<<<"app">>, <<"views">>>>

\* path.normalize on the segments of an absolute path: empty and "."
\* segments vanish, ".." removes the segment before it, if there is one
RECURSIVE NormalizeSegments(_, _)
NormalizeSegments(segments, done) ==
    IF segments = <<>> THEN done
    ELSE LET seg == Head(segments)
             rest == Tail(segments)
         IN  IF seg = <<>> \/ seg = <<".">>
             THEN NormalizeSegments(rest, done)
             ELSE IF seg = <<".", ".">>
             THEN NormalizeSegments(rest,
                      IF done = <<>> THEN done
                      ELSE SubSeq(done, 1, Len(done) - 1))
             ELSE NormalizeSegments(rest, Append(done, seg))

\* path.join(viewsPath, relative)
PathJoin(viewsPath, relative) ==
    NormalizeSegments(viewsPath \o Split(relative, "/"), <<>>)

\* the file is the views directory or lies under it
UnderViewsPath(fullPath) == IsPrefix(ViewsPath, fullPath)

\* templatePath.replace(/\.view$/, '')
StripDotView(templatePath) ==
    IF IsSuffix(DotView, templatePath)
    THEN SubSeq(templatePath, 1, Len(templatePath) - Len(DotView))
    ELSE templatePath

\* BladeEngine.render, lines 171-178: the file whose existence is tested
\* and which is then read
TemplateFile(templatePath) ==
    PathJoin(ViewsPath, StripDotView(templatePath) \o DotView)

\* template.replace(/^\/+/, '')
RECURSIVE StripLeadingSlashes(_)
StripLeadingSlashes(s) ==
    IF s # <<>> /\ s[1] = "/" THEN StripLeadingSlashes(Tail(s)) ELSE s

\* getTemplateEngine, lines 380-381
SafeTemplate(template) ==
    ReplaceAll(StripLeadingSlashes(ReplaceAll(template, <<".", ".">>, <<>>)),
               <<"\\">>, <<"/">>)

\* BladeEngine.render(templatePath, data) called by the application
EngineRender(templatePath) ==
    /\ BladeIdle
    /\ blade' = [op |-> "render", template |-> templatePath,
                 file |-> TemplateFile(templatePath)]
    /\ UNCHANGED <<stVars, mgrVars, viewVars, ctlVars>>

\* the render of the object getTemplateEngine returns, which a component
\* calls with its view
WrapperRender(template) ==
    /\ BladeIdle
    /\ blade' = [op |-> "wrapper", template |-> template,
                 file |-> TemplateFile(SafeTemplate(template))]
    /\ UNCHANGED <<stVars, mgrVars, viewVars, ctlVars>>

\* the names @extends('...') and @include('...') can carry: [^'"]+, and for
\* @extends, which is copied into a string literal of the generated code,
\* no backslash
DirectiveNames == {n \in TemplateNames : n # <<>>}
ExtendsNames == {n \in DirectiveNames : ~Contains(n, <<"\\">>)}

\* A template that starts with @extends(name) is rendered: the generated
\* code calls engine.render(name, layoutData) on the BladeEngine itself.
ExtendsRender(name) ==
    /\ BladeIdle
    /\ blade' = [op |-> "extends", template |-> name,
                 file |-> TemplateFile(name)]
    /\ UNCHANGED <<stVars, mgrVars, viewVars, ctlVars>>

\* processIncludes, line 646: the file of @include(includePath)
IncludeResolve(includePath) ==
    /\ BladeIdle
    /\ blade' = [op |-> "include", template |-> includePath,
                 file |-> PathJoin(ViewsPath, includePath \o DotView)]
    /\ UNCHANGED <<stVars, mgrVars, viewVars, ctlVars>>

BladeStart == MgrInit /\ StIdle /\ ViewIdle /\ BladeIdle /\ CtlIdle

\* the caller has taken the result
BladeTaken ==
    /\ ~BladeIdle
    /\ blade' = NoBlade
    /\ UNCHANGED <<stVars, mgrVars, viewVars, ctlVars>>

PathNext ==
    \/ \E templatePath \in TemplateNames : EngineRender(templatePath)
    \/ \E template \in TemplateNames : WrapperRender(template)
    \/ \E name \in ExtendsNames : ExtendsRender(name)
    \/ \E includePath \in DirectiveNames : IncludeResolve(includePath)
    \/ BladeTaken

SpecPath == BladeStart /\ [][PathNext]_vars

(***************************************************************************)
(* BladeParser.convertBladeExpression.  An expression is the sequence of   *)
(* its lexemes: a word (an identifier or a reserved word, which the        *)
(* regular expressions of the code take or leave whole) or a punctuation   *)
(* mark; two words are never adjacent.                                     *)
(***************************************************************************)
\* line 710
JsKeywords ==
    {"true", "false", "null", "undefined", "this", "new", "typeof",
     "instanceof", "in", "of", "return", "if", "else", "for", "while", "do",
     "switch", "case", "break", "continue", "function", "var", "let",
     "const"}
\* the identifiers of the expressions and templates below
Identifiers ==
    {"x", "y", "z", "k", "f", "data", "escape", "items", "item", "name",
     "_sections", "_content", "title"}
Words == JsKeywords \cup Identifiers
IsWord(lexeme) == lexeme \in Words

\* no two words side by side: they would be one word
WellLexed(e) == \A i \in 1..(Len(e) - 1) : ~(IsWord(e[i]) /\ IsWord(e[i + 1]))

\* line 713: expression.replace(/\$(\w+)/g, 'data.$1').  After it every "$"
\* that a word follows has gone or is followed by "data.", so that the
\* patterns of lines 716-720, "$" word "->" and "$" word "[", match nothing.
RECURSIVE DollarPass(_)
DollarPass(e) ==
    IF e = <<>> THEN <<>>
    ELSE IF Len(e) >= 2 /\ e[1] = "$" /\ IsWord(e[2])
    THEN <<"data", ".", e[2]>> \o DollarPass(SubSeq(e, 3, Len(e)))
    ELSE <<e[1]>> \o DollarPass(Tail(e))

\* the end of the longest word(.word)* that starts at i
RECURSIVE ChainEnd(_, _)
ChainEnd(e, i) ==
    IF i + 2 <= Len(e) /\ e[i + 1] = "." /\ IsWord(e[i + 2])
    THEN ChainEnd(e, i + 2)
    ELSE i

\* the word at i is not the continuation of a dotted chain
ChainStart(e, i) ==
    IsWord(e[i]) /\ ~(i > 2 /\ e[i - 1] = "." /\ IsWord(e[i - 2]))

\* lines 749-750 and 792-793: the two characters before end with one of
\* . :: ( [
PrecededByAccess(e, i) ==
    \/ i > 1 /\ e[i - 1] \in {".", "(", "["}
    \/ i > 2 /\ e[i - 1] = ":" /\ e[i - 2] = ":"

\* lines 738-773 for a chain of two words or more, lines 776-812 for a
\* single word: whether "data." is put in front of the word at i
RewrittenAt(e, i) ==
    /\ ChainStart(e, i)
    /\ LET j == ChainEnd(e, i)
           after == IF j < Len(e) THEN e[j + 1] ELSE ""
       IN  /\ e[i] \notin JsKeywords
           /\ ~PrecededByAccess(e, i)
           /\ after # "."
           /\ j = i => after \notin {"(", "["} /\ e[i] # "data"

\* lines 815-818: the replacements applied
RECURSIVE ApplyReplacements(_, _)
ApplyReplacements(e, i) ==
    IF i > Len(e) THEN <<>>
    ELSE (IF RewrittenAt(e, i) THEN <<"data", ".">> ELSE <<>>)
         \o <<e[i]>> \o ApplyReplacements(e, i + 1)

\* lines 706-827; the operator replacements of lines 821-824 put back what
\* they find
ConvertBladeExpression(expression) ==
    ApplyReplacements(DollarPass(expression), 1)

\* the expressions given to the translator
ExpressionLexemes == {"x", "y", "true", "$", ".", "(", "'", "->"}
ExampleExpressions ==
    { <<"x", ".", "y", ".", "z">>,
      <<"$", "x", "[", "'", "k", "'", "]">>,
      <<"$", "x", "->", "y">>,
      <<"f", "(", "x", ")">>,
      <<"x", "[", "y", "]">>,
      <<"data", ".", "x">>,
      <<"this", ".", "x">>,
      <<"x", " ", "in", " ", "y">> }
Expressions ==
    {e \in StringsOver(ExpressionLexemes, MaxExpr) : WellLexed(e)}
        \cup ExampleExpressions

\* convertBladeExpression(expression)
Translate(expression) ==
    /\ BladeIdle
    /\ blade' = [op |-> "translate", expression |-> expression,
                 dollar |-> DollarPass(expression),
                 marks |-> {i \in 1..Len(DollarPass(expression)) :
                               RewrittenAt(DollarPass(expression), i)},
                 res |-> ConvertBladeExpression(expression)]
    /\ UNCHANGED <<stVars, mgrVars, viewVars, ctlVars>>

TranslateNext ==
    \/ \E expression \in Expressions : Translate(expression)
    \/ BladeTaken

SpecTranslate == BladeStart /\ [][TranslateNext]_vars

(***************************************************************************)
(* The values of a render context and the expressions of the generated     *)
(* code, as new Function evaluates them (BladeEngine.compile).  The text   *)
(* of a template, of the generated code and of the output is a sequence    *)
(* of lexemes: a directive name, a word or a single character.             *)
(***************************************************************************)
JsUndefined == [t |-> "undef"]
JsBool(b) == [t |-> "bool", v |-> b]
JsText(s) == [t |-> "text", v |-> s]
JsArray(a) == [t |-> "arr", v |-> a]
JsObject(o) == [t |-> "obj", v |-> o]

Truthy(val) ==
    CASE val.t = "undef" -> FALSE
      [] val.t = "bool" -> val.v
      [] val.t = "text" -> val.v # <<>>
      [] OTHER -> TRUE

\* String(val) for the values above; the items of an array are texts
RECURSIVE JoinWithComma(_)
JoinWithComma(a) ==
    IF a = <<>> THEN <<>>
    ELSE IF Len(a) = 1 THEN a[1].v
    ELSE a[1].v \o <<",">> \o JoinWithComma(Tail(a))

ToText(val) ==
    CASE val.t = "undef" -> <<"undefined">>
      [] val.t = "bool" -> IF val.v THEN <<"true">> ELSE <<"false">>
      [] val.t = "text" -> val.v
      [] val.t = "arr" -> JoinWithComma(val.v)
      [] OTHER -> <<"[object Object]">>

\* the helper escape of the generated code (BladeCompiler.compile line 17)
RECURSIVE EscapeHtml(_)
EscapeHtml(s) ==
    IF s = <<>> THEN <<>>
    ELSE (CASE s[1] = "&" -> <<"&amp;">>
            [] s[1] = "<" -> <<"&lt;">>
            [] s[1] = ">" -> <<"&gt;">>
            [] s[1] = "\"" -> <<"&quot;">>
            [] s[1] = "'" -> <<"&#39;">>
            [] OTHER -> <<s[1]>>) \o EscapeHtml(Tail(s))

RECURSIVE SkipBlanks(_)
SkipBlanks(t) ==
    IF t # <<>> /\ t[1] = " " THEN SkipBlanks(Tail(t)) ELSE t

JsSyntaxError == [ok |-> FALSE, ast |-> [k |-> "none"], rest |-> <<>>]
Parsed(ast, rest) == [ok |-> TRUE, ast |-> ast, rest |-> SkipBlanks(rest)]

\* The expressions the compiler writes into push(...): conditional
\* expressions over || and &&, parenthesised expressions, template and
\* string literals, property chains and calls.
RECURSIVE JsParseExpression(_), JsParseOr(_), JsParseAnd(_),
          JsParsePrimary(_), JsParseChain(_, _)

\* the properties after a root: .word and ['word']
JsParseChain(t, props) ==
    IF Len(t) >= 2 /\ t[1] = "." /\ IsWord(t[2])
    THEN JsParseChain(SubSeq(t, 3, Len(t)), Append(props, t[2]))
    ELSE IF /\ Len(t) >= 5
            /\ t[1] = "[" /\ t[2] = "'" /\ t[4] = "'" /\ t[5] = "]"
    THEN JsParseChain(SubSeq(t, 6, Len(t)), Append(props, t[3]))
    ELSE [props |-> props, rest |-> t]

\* what was parsed, when closing follows it
JsClosed(inner, closing, ast) ==
    IF inner.ok /\ inner.rest # <<>> /\ inner.rest[1] = closing
    THEN Parsed(ast, Tail(inner.rest))
    ELSE JsSyntaxError

JsParenthesised(inner) == JsClosed(inner, ")", inner.ast)

JsCall(ref, arg) ==
    JsClosed(arg, ")", [k |-> "call", fn |-> ref, arg |-> arg.ast])

\* a string literal that opens at the head of t and closes at close.  In a
\* template literal a substitution that opens cannot close, the
\* expression holding no "}"
JsQuoted(t, close) ==
    IF \/ close = 0
       \/ t[1] = BackQuote /\ Contains(SubSeq(t, 2, close - 1), <<"$", "{">>)
    THEN JsSyntaxError
    ELSE Parsed([k |-> "lit", v |-> JsText(SubSeq(t, 2, close - 1))],
                SubSeq(t, close + 1, Len(t)))

\* a property chain on root, called or not
JsReference(root, chain) ==
    IF chain.rest # <<>> /\ chain.rest[1] = "("
    THEN JsCall([k |-> "chain", root |-> root, props |-> chain.props],
                JsParseExpression(Tail(chain.rest)))
    ELSE Parsed([k |-> "chain", root |-> root, props |-> chain.props],
                chain.rest)

JsPrimaryAt(t) ==
    IF t = <<>> THEN JsSyntaxError
    ELSE IF t[1] = "(" THEN JsParenthesised(JsParseExpression(Tail(t)))
    ELSE IF t[1] \in {BackQuote, "'"}
    THEN JsQuoted(t, IndexOf(t, <<t[1]>>, 2))
    ELSE IF t[1] \in {"true", "false"}
    THEN Parsed([k |-> "lit", v |-> JsBool(t[1] = "true")], Tail(t))
    ELSE IF IsWord(t[1]) /\ t[1] \notin JsKeywords
    THEN JsReference(t[1], JsParseChain(Tail(t), <<>>))
    ELSE JsSyntaxError

JsParsePrimary(t) == JsPrimaryAt(SkipBlanks(t))

\* left operator right
JsBinary(operator, left, right) ==
    IF right.ok
    THEN Parsed([k |-> operator, l |-> left.ast, r |-> right.ast],
                right.rest)
    ELSE JsSyntaxError

JsFollowedBy(left, operator) ==
    left.ok /\ left.rest # <<>> /\ left.rest[1] = operator

JsAndAfter(left) ==
    IF JsFollowedBy(left, "&&")
    THEN JsBinary("and", left, JsParseAnd(Tail(left.rest)))
    ELSE left

JsParseAnd(t) == JsAndAfter(JsParsePrimary(t))

JsOrAfter(left) ==
    IF JsFollowedBy(left, "||")
    THEN JsBinary("or", left, JsParseOr(Tail(left.rest)))
    ELSE left

JsParseOr(t) == JsOrAfter(JsParseAnd(t))

\* test ? yes : no
JsConditional(test, yes, no) ==
    IF no.ok
    THEN Parsed([k |-> "cond", c |-> test.ast, a |-> yes.ast, b |-> no.ast],
                no.rest)
    ELSE JsSyntaxError

JsConditionalElse(test, yes) ==
    IF JsFollowedBy(yes, ":")
    THEN JsConditional(test, yes, JsParseExpression(Tail(yes.rest)))
    ELSE JsSyntaxError

JsConditionalAfter(test) ==
    IF JsFollowedBy(test, "?")
    THEN JsConditionalElse(test, JsParseExpression(Tail(test.rest)))
    ELSE test

JsParseExpression(t) == JsConditionalAfter(JsParseOr(t))

\* the argument of one push(...) is an expression and nothing more
JsWhole(whole) == whole.ok /\ whole.rest = <<>>

JsWellFormed(t) == JsWhole(JsParseExpression(t))

JsThrown == [threw |-> TRUE, v |-> JsUndefined]
JsValue(val) == [threw |-> FALSE, v |-> val]

\* obj.prop: a TypeError on undefined, undefined for a missing property
JsGet(val, prop) ==
    IF val.t = "undef" THEN JsThrown
    ELSE IF val.t = "obj" /\ prop \in DOMAIN val.v THEN JsValue(val.v[prop])
    ELSE JsValue(JsUndefined)

RECURSIVE JsGetPath(_, _)
JsGetPath(val, props) ==
    IF props = <<>> THEN JsValue(val)
    ELSE LET first == JsGet(val, Head(props))
         IN  IF first.threw THEN JsThrown
             ELSE JsGetPath(first.v, Tail(props))

\* the evaluation of an expression in the scope of the generated function:
\* its parameter data and its helper escape; any other free name is a
\* ReferenceError
RECURSIVE JsEval(_, _)
JsEval(ast, data) ==
    CASE ast.k = "lit" -> JsValue(ast.v)
      [] ast.k = "chain" ->
            IF ast.root = "data" THEN JsGetPath(JsObject(data), ast.props)
            ELSE JsThrown
      [] ast.k = "call" ->
            IF ast.fn.root = "escape" /\ ast.fn.props = <<>>
            THEN LET arg == JsEval(ast.arg, data)
                 IN  IF arg.threw THEN JsThrown
                     ELSE IF arg.v.t = "undef" THEN JsValue(JsText(<<>>))
                     ELSE JsValue(JsText(EscapeHtml(ToText(arg.v))))
            ELSE JsThrown
      [] ast.k = "cond" ->
            LET test == JsEval(ast.c, data)
            IN  IF test.threw THEN JsThrown
                ELSE IF Truthy(test.v) THEN JsEval(ast.a, data)
                ELSE JsEval(ast.b, data)
      [] ast.k = "or" ->
            LET left == JsEval(ast.l, data)
            IN  IF left.threw \/ Truthy(left.v) THEN left
                ELSE JsEval(ast.r, data)
      [] ast.k = "and" ->
            LET left == JsEval(ast.l, data)
            IN  IF left.threw \/ ~Truthy(left.v) THEN left
                ELSE JsEval(ast.r, data)
      [] OTHER -> JsThrown

(***************************************************************************)
(* BladeParser.parse.  The directive headers of the templates below are    *)
(* written without blanks around their parentheses, so the \s* of the      *)
(* patterns match the empty string.                                        *)
(***************************************************************************)
Blanks == {" ", "\n", "\r", "\t"}

\* String.prototype.trim
RECURSIVE TrimStart(_)
TrimStart(s) ==
    IF s # <<>> /\ s[1] \in Blanks THEN TrimStart(Tail(s)) ELSE s

RECURSIVE TrimEnd(_)
TrimEnd(s) ==
    IF s # <<>> /\ s[Len(s)] \in Blanks
    THEN TrimEnd(SubSeq(s, 1, Len(s) - 1))
    ELSE s

Trim(s) == TrimEnd(TrimStart(s))

\* the last index where p occurs in s, 0 if none
LastIndexOfFrom(s, p, from) ==
    LET hits == {i \in 1..from :
                    /\ i + Len(p) - 1 <= Len(s)
                    /\ SubSeq(s, i, i + Len(p) - 1) = p}
    IN  IF hits = {} THEN 0 ELSE Greatest(hits)

LastIndexOf(s, p) == LastIndexOfFrom(s, p, Len(s))

\* a directive at i with a parenthesised header: directive "(" [^)]+ ")";
\* close is the index of the ")", 0 when the pattern does not match at i
HeaderClose(s, i, directive) ==
    IF i + 2 <= Len(s) /\ s[i] = directive /\ s[i + 1] = "("
       /\ s[i + 2] # ")"
    THEN IndexOf(s, <<")">>, i + 3)
    ELSE 0

ElseMark == <<BackQuote, " ", ":", " ", BackQuote>>

\* lines 578-581 (@if) and 584-587 (@elseif): the header becomes the
\* opening of a conditional expression on the translated condition
RECURSIVE ReplaceHeaders(_, _, _)
ReplaceHeaders(s, directive, opening) ==
    LET starts == {i \in 1..Len(s) : HeaderClose(s, i, directive) # 0}
        at == Least(starts)
        close == HeaderClose(s, at, directive)
    IN  IF starts = {} THEN s
        ELSE SubSeq(s, 1, at - 1)
             \o opening
             \o ConvertBladeExpression(SubSeq(s, at + 2, close - 1))
             \o <<" ", "?", " ", BackQuote>>
             \o ReplaceHeaders(SubSeq(s, close + 1, Len(s)), directive,
                               opening)

\* a lexeme that stands for 200 characters of text without directive
Filler == "filler"

\* lines 596-597: the last 200 characters of the text before the @endif.
\* The templates below are shorter than that between their fillers, so the
\* characters looked at end in what follows the last filler, and the rest
\* of them are text of that filler.
Lookback(text) ==
    LET fillers == {i \in 1..Len(text) : text[i] = Filler}
    IN  IF fillers = {} THEN text
        ELSE SubSeq(text, Greatest(fillers), Len(text))

\* lines 595-605: what an @endif at offset becomes
EndifClosing(s, offset) ==
    LET before == Lookback(SubSeq(s, 1, offset - 1))
        last == LastIndexOf(before, ElseMark)
        around == IF last = 0 THEN <<>>
                  ELSE SubSeq(before, IF last > 20 THEN last - 20 ELSE 1,
                              Len(before))
        hasElse == last # 0 /\ ~Contains(around, <<"@elseif">>)
    IN  IF hasElse THEN <<BackQuote, "}">>
        ELSE <<BackQuote, " ", ":", " ", "'", "'", "}">>

RECURSIVE ReplaceEndifs(_, _)
ReplaceEndifs(s, i) ==
    LET at == IndexOf(s, <<"@endif">>, i)
    IN  IF at = 0 THEN SubSeq(s, i, Len(s))
        ELSE SubSeq(s, i, at - 1) \o EndifClosing(s, at)
             \o ReplaceEndifs(s, at + 1)

\* lines 576-608
ProcessConditionals(content) ==
    LET ifs == ReplaceHeaders(content, "@if", <<"$", "{">>)
        elseifs == ReplaceHeaders(ifs, "@elseif", <<BackQuote, " ", ":", " ">>)
        elses == ReplaceAll(elseifs, <<"@else">>, ElseMark)
    IN  ReplaceEndifs(elses, 1)

\* line 616 on a header "$items as $value" or "$items as $a => $b"
LoopMarker(loopExpr) ==
    IF /\ Len(loopExpr) = 7
       /\ loopExpr[1] = "$" /\ IsWord(loopExpr[2]) /\ loopExpr[3] = " "
       /\ loopExpr[4] = "as" /\ loopExpr[5] = " " /\ loopExpr[6] = "$"
       /\ IsWord(loopExpr[7])
    THEN <<"<!--LOOP:", loopExpr[2], ":", ":", loopExpr[7], "-->">>
    ELSE IF /\ Len(loopExpr) = 12
            /\ loopExpr[1] = "$" /\ IsWord(loopExpr[2]) /\ loopExpr[3] = " "
            /\ loopExpr[4] = "as" /\ loopExpr[5] = " " /\ loopExpr[6] = "$"
            /\ IsWord(loopExpr[7]) /\ loopExpr[8] = " "
            /\ loopExpr[9] = "=>" /\ loopExpr[10] = " "
            /\ loopExpr[11] = "$" /\ IsWord(loopExpr[12])
    THEN <<"<!--LOOP:", loopExpr[2], ":", loopExpr[12], ":", loopExpr[7],
           "-->">>
    ELSE <<>>

\* lines 614-628
RECURSIVE ReplaceForeach(_)
ReplaceForeach(s) ==
    LET starts == {i \in 1..Len(s) : HeaderClose(s, i, "@foreach") # 0}
        at == Least(starts)
        close == HeaderClose(s, at, "@foreach")
        marker == LoopMarker(SubSeq(s, at + 2, close - 1))
    IN  IF starts = {} THEN s
        ELSE SubSeq(s, 1, at - 1)
             \o (IF marker # <<>> THEN marker ELSE SubSeq(s, at, close))
             \o ReplaceForeach(SubSeq(s, close + 1, Len(s)))

\* lines 610-634
ProcessLoops(content) ==
    ReplaceAll(ReplaceForeach(content), <<"@endforeach">>,
               <<"<!--ENDLOOP-->">>)

\* lines 698-701: {{ expression }} becomes ${escape(translation)}
\* the {{ expression }} that opens at i: what follows the braces, and
\* where the characters other than "}" end in it; close is 0 when none
\* opens at i
VariableAt(s, i) ==
    LET inner == IF i < Len(s) /\ s[i] = "{" /\ s[i + 1] = "{"
                 THEN SubSeq(s, i + 2, Len(s))
                 ELSE <<>>
        close == IndexOf(inner, <<"}">>, 2)
    IN  IF /\ inner # <<>> /\ inner[1] # "}"
           /\ close # 0 /\ close < Len(inner) /\ inner[close + 1] = "}"
        THEN [inner |-> inner, close |-> close]
        ELSE [inner |-> <<>>, close |-> 0]

\* lines 698-701: {{ expression }} becomes ${escape(translation)}
RECURSIVE ProcessVariables(_)
ProcessVariables(s) ==
    LET starts == {i \in 1..Len(s) : VariableAt(s, i).close # 0}
        found == VariableAt(s, Least(starts))
    IN  IF starts = {} THEN s
        ELSE SubSeq(s, 1, Least(starts) - 1)
             \o <<"$", "{", "escape", "(">>
             \o ConvertBladeExpression(
                    Trim(SubSeq(found.inner, 1, found.close - 1)))
             \o <<")", "}">>
             \o ProcessVariables(SubSeq(found.inner, found.close + 2,
                                        Len(found.inner)))

\* a word character cannot follow: the \b of /@content\b/
WordCharacters == Words \cup {"A", "B", "C", "D", "N", "S"}

\* lines 472-497: @yield('name') and @yield('name', 'default') become an
\* expression on data._sections, @content one on data._content
\* where the @yield(...) that opens at i closes, 0 when none opens there
YieldClose(s, i) ==
    IF /\ i + 5 <= Len(s)
       /\ s[i] = "@yield" /\ s[i + 1] = "(" /\ s[i + 2] = "'"
       /\ IsWord(s[i + 3]) /\ s[i + 4] = "'"
    THEN IF s[i + 5] = ")" THEN i + 5
         ELSE LET close == IndexOf(s, <<"'", ")">>, i + 8)
              IN  IF /\ i + 9 <= Len(s) /\ s[i + 5] = "," /\ s[i + 6] = " "
                     /\ s[i + 7] = "'" /\ close # 0
                     /\ ~Contains(SubSeq(s, i + 8, close - 1), <<"'">>)
                  THEN close + 1
                  ELSE 0
    ELSE 0

ContentAt(s, i) ==
    s[i] = "@content" /\ (i = Len(s) \/ s[i + 1] \notin WordCharacters)

RECURSIVE ProcessYields(_)
ProcessYields(s) ==
    LET starts == {i \in 1..Len(s) :
                      YieldClose(s, i) # 0 \/ ContentAt(s, i)}
        at == Least(starts)
        close == YieldClose(s, at)
        defaultValue == IF s[at + 5] = ")" THEN <<>>
                        ELSE SubSeq(s, at + 8, close - 2)
    IN  IF starts = {} THEN s
        ELSE IF close # 0
        THEN SubSeq(s, 1, at - 1)
             \o <<"$", "{", "(", "data", ".", "_sections", " ", "&&", " ",
                  "data", ".", "_sections", "[", "'", s[at + 3], "'", "]",
                  ")", " ", "||", " ", "'">>
             \o defaultValue \o <<"'", "}">>
             \o ProcessYields(SubSeq(s, close + 1, Len(s)))
        ELSE SubSeq(s, 1, at - 1)
             \o <<"$", "{", "data", ".", "_content", " ", "||", " ", "'",
                  "'", "}">>
             \o ProcessYields(SubSeq(s, at + 1, Len(s)))

\* line 428: the first @extends('name'); at is 0 when there is none
ExtendsMatch(s) ==
    LET at == IndexOf(s, <<"@extends", "(", "'">>, 1)
        close == IF at = 0 THEN 0 ELSE IndexOf(s, <<"'", ")">>, at + 4)
    IN  IF at # 0 /\ close # 0
           /\ ~Contains(SubSeq(s, at + 3, close - 1), <<"'">>)
        THEN [at |-> at, name |-> SubSeq(s, at + 3, close - 1),
              end |-> close + 1]
        ELSE [at |-> 0, name |-> <<>>, end |-> 0]

\* lines 503-515: each @section('name') ... @endsection is taken out of
\* the content and kept, trimmed, under its name
RECURSIVE ProcessSections(_, _)
ProcessSections(s, found) ==
    LET at == IndexOf(s, <<"@section", "(", "'">>, 1)
        nameEnd == IF at = 0 THEN 0 ELSE IndexOf(s, <<"'", ")">>, at + 4)
        finish == IF nameEnd = 0 THEN 0
                  ELSE IndexOf(s, <<"@endsection">>, nameEnd + 2)
    IN  IF at = 0 \/ nameEnd # at + 4 \/ finish = 0
        THEN [content |-> s, sections |-> found]
        ELSE ProcessSections(
                 SubSeq(s, 1, at - 1)
                    \o <<"<!--SECTION:", s[at + 3], "-->">>
                    \o SubSeq(s, finish + 1, Len(s)),
                 Append(found,
                        [name |-> s[at + 3],
                         content |-> Trim(SubSeq(s, nameEnd + 2,
                                                 finish - 1))]))

\* where the @include('name') that opens at i closes, 0 when none opens
\* there: the pattern of line 637, without props
IncludeClose(s, i) ==
    IF /\ i + 5 <= Len(s)
       /\ SubSeq(s, i, i + 2) = <<"@include", "(", "'">>
       /\ s[i + 3] # "'"
       /\ SubSeq(s, i + 4, i + 5) = <<"'", ")">>
    THEN i + 5
    ELSE 0

\* String.prototype.replace with a string to search for: the first
\* occurrence is replaced
ReplaceFirst(s, p, r) ==
    LET at == IndexOf(s, p, 1)
    IN  IF at = 0 THEN s
        ELSE SubSeq(s, 1, at - 1) \o r \o SubSeq(s, at + Len(p), Len(s))

\* lines 641-668: the matches are those of the content the pass was
\* given, from the index from on; each is replaced in what was processed
\* so far by the file of that name under the views directory, by nothing
\* when there is no such file
RECURSIVE InlineIncludes(_, _, _, _)
InlineIncludes(content, from, processed, views) ==
    LET starts == {i \in from..Len(content) : IncludeClose(content, i) # 0}
        at == Least(starts)
    IN  IF starts = {} THEN processed
        ELSE InlineIncludes(content, at + 6,
                ReplaceFirst(processed, SubSeq(content, at, at + 5),
                             IF <<content[at + 3]>> \in DOMAIN views
                             THEN views[<<content[at + 3]>>]
                             ELSE <<>>),
                views)

\* processIncludes, lines 636-671
ProcessIncludes(content, views) == InlineIncludes(content, 1, content, views)

\* where the pattern of line 519 that opens at i ends: @component('name'),
\* without props, then as little as possible up to an @endcomponent; 0
\* when it does not match at i
ComponentClose(s, i) ==
    IF /\ i + 5 <= Len(s)
       /\ SubSeq(s, i, i + 2) = <<"@component", "(", "'">>
       /\ s[i + 3] # "'"
       /\ SubSeq(s, i + 4, i + 5) = <<"'", ")">>
    THEN IndexOf(s, <<"@endcomponent">>, i + 6)
    ELSE 0

\* lines 523-556: the matches are those of the content the pass was given,
\* from the index from on; each is kept under its name, with what it
\* holds as its slot, and replaced in what was processed so far by the
\* placeholder of that name
RECURSIVE MatchComponents(_, _, _, _)
MatchComponents(content, from, processed, found) ==
    LET starts == {i \in from..Len(content) : ComponentClose(content, i) # 0}
        at == Least(starts)
        close == ComponentClose(content, at)
    IN  IF starts = {}
        THEN [content |-> processed, components |-> found]
        ELSE MatchComponents(content, close + 1,
                ReplaceFirst(processed, SubSeq(content, at, close),
                             <<"<!--COMPONENT:", content[at + 3], "-->">>),
                (content[at + 3] :>
                    [name |-> content[at + 3],
                     slot |-> Trim(SubSeq(content, at + 6, close - 1))])
                    @@ found)

\* processComponents, lines 518-559
ProcessComponents(content) == MatchComponents(content, 1, content, EmptyMap)

\* the code of line 684, which renders the component data.name
RenderExpression(name) ==
    << "$", "{", "(function(){const c=data.", name,
       ";if(!c||typeof c!=='object'||!c.render||typeof c.render!=='function'){return'';",
       "}", "const nwm=data._nodeWireManager;if(!nwm){return'';", "}",
       "const te=nwm.getTemplateEngine(data._viewsPath);return c.render(te);",
       "}", ")()", "}" >>

\* processNodeWireDirectives, lines 683-685: each @component('name') left in
\* the content becomes the code that renders the component
RECURSIVE ProcessNodeWireDirectives(_)
ProcessNodeWireDirectives(s) ==
    LET at == IndexOf(s, <<"@component", "(", "'">>, 1)
    IN  IF at = 0 THEN s
        ELSE IF at + 5 <= Len(s) /\ s[at + 3] # "'"
                /\ SubSeq(s, at + 4, at + 5) = <<"'", ")">>
        THEN SubSeq(s, 1, at - 1) \o RenderExpression(s[at + 3])
             \o ProcessNodeWireDirectives(SubSeq(s, at + 6, Len(s)))
        ELSE SubSeq(s, 1, at + 2)
             \o ProcessNodeWireDirectives(SubSeq(s, at + 3, Len(s)))

\* lines 416-466, views being the files under viewsPath.  The templates
\* below hold no @slot, @nodewireState and no {!! !!}: the pass of line
\* 441, the first replacement of processNodeWireDirectives and the first
\* one of processVariables find nothing in them.
ParseUnder(templateContent, views) ==
    LET ext == ExtendsMatch(templateContent)
        afterExtends ==
            IF ext.at = 0 THEN templateContent
            ELSE SubSeq(templateContent, 1, ext.at - 1)
                 \o SubSeq(templateContent, ext.end + 1,
                           Len(templateContent))
        sectioned == ProcessSections(afterExtends, <<>>)
        componented == ProcessComponents(sectioned.content)
        yields == ProcessYields(componented.content)
        conditionals == ProcessConditionals(yields)
        loops == ProcessLoops(conditionals)
        includes == ProcessIncludes(loops, views)
        directives == ProcessNodeWireDirectives(includes)
        variables == ProcessVariables(directives)
    IN  [extends |-> ext.name, sections |-> sectioned.sections,
         components |-> componented.components,
         content |-> Trim(variables)]

\* parse on a template that includes no file
Parse(templateContent) == ParseUnder(templateContent, EmptyMap)

(***************************************************************************)
(* BladeCompiler and the execution of the code it generates.               *)
(***************************************************************************)
\* splitContent, lines 92-129: text and the expressions ${...}, an
\* expression being one character or more up to the first "}"
RECURSIVE SplitFrom(_, _)
SplitFrom(content, currentIndex) ==
    LET starts == {i \in currentIndex..(Len(content) - 3) :
                      /\ content[i] = "$" /\ content[i + 1] = "{"
                      /\ content[i + 2] # "}"
                      /\ IndexOf(content, <<"}">>, i + 3) # 0}
        at == Least(starts)
        close == IndexOf(content, <<"}">>, at + 3)
        text == SubSeq(content, currentIndex,
                       IF starts = {} THEN Len(content) ELSE at - 1)
        part == IF text = <<>> THEN <<>>
                ELSE <<[type |-> "text", value |-> text]>>
    IN  IF starts = {} THEN part
        ELSE part
             \o <<[type |-> "expression",
                   value |-> SubSeq(content, at + 2, close - 1)]>>
             \o SplitFrom(content, close + 1)

SplitContent(content) == SplitFrom(content, 1)

\* compileContent, lines 77-83: the text made the body of a template
\* literal
RECURSIVE EscapeLiteral(_)
EscapeLiteral(text) ==
    LET special == {i \in 1..Len(text) :
                       \/ text[i] \in {"\\", BackQuote, "\n", "\r", "\t"}
                       \/ /\ text[i] = "$" /\ i < Len(text)
                          /\ text[i + 1] = "{"}
        at == Least(special)
        pair == /\ at < Len(text)
                /\ \/ text[at] = "$"
                   \/ text[at] = "\r" /\ text[at + 1] = "\n"
        escaped == CASE text[at] = "\\" -> <<"\\", "\\">>
                     [] text[at] = BackQuote -> <<"\\", BackQuote>>
                     [] text[at] = "$" -> <<"\\", "$", "{">>
                     [] text[at] = "\n" -> <<"\\", "n">>
                     [] text[at] = "\r" ->
                            IF pair THEN <<"\\", "n">> ELSE <<"\\", "r">>
                     [] OTHER -> <<"\\", "t">>
    IN  IF special = {} THEN text
        ELSE SubSeq(text, 1, at - 1) \o escaped
             \o EscapeLiteral(SubSeq(text, IF pair THEN at + 2 ELSE at + 1,
                                     Len(text)))

\* the string a template literal with that body denotes
RECURSIVE CookLiteral(_)
CookLiteral(body) ==
    LET at == IndexOf(body, <<"\\">>, 1)
    IN  IF at = 0 \/ at = Len(body) THEN body
        ELSE SubSeq(body, 1, at - 1)
             \o <<CASE body[at + 1] = "n" -> "\n"
                    [] body[at + 1] = "r" -> "\r"
                    [] body[at + 1] = "t" -> "\t"
                    [] OTHER -> body[at + 1]>>
             \o CookLiteral(SubSeq(body, at + 2, Len(body)))

\* compileContent, lines 63-90: one push per part
CompileContent(content) ==
    LET parts == SplitContent(content)
    IN  [n \in 1..Len(parts) |->
            IF parts[n].type = "expression" THEN parts[n]
            ELSE [type |-> "text", value |-> EscapeLiteral(parts[n].value)]]

\* new Function accepts the code: every push(...) holds an expression
CodeWellFormed(code) ==
    \A n \in 1..Len(code) :
        code[n].type = "expression" => JsWellFormed(code[n].value)

\* the value one statement hands to push
PushValue(stmt, data) ==
    IF stmt.type = "expression"
    THEN JsEval(JsParseExpression(stmt.value).ast, data)
    ELSE JsValue(JsText(CookLiteral(stmt.value)))

\* push, line 19: what is neither null nor undefined is appended as text
PushText(v, output) == IF v.t = "undef" THEN output ELSE output \o ToText(v)

\* the pushes run in order; an error thrown ends the run
RECURSIVE RunPushes(_, _, _)
RunAfter(val, code, data, output) ==
    IF val.threw THEN [threw |-> TRUE, output |-> output]
    ELSE RunPushes(code, data, PushText(val.v, output))

RunPushes(code, data, output) ==
    IF code = <<>> THEN [threw |-> FALSE, output |-> output]
    ELSE RunAfter(PushValue(Head(code), data), Tail(code), data, output)

Thrown == [threw |-> TRUE, output |-> <<>>]

EmptyText == JsText(<<>>)

\* BladeCompiler.compile, lines 13-32, and compileWithLayout, lines 34-61:
\* the code of the body and of each section
CompileTemplate(parsed) ==
    [extends |-> parsed.extends,
     body |-> CompileContent(parsed.content),
     sections |-> [n \in 1..Len(parsed.sections) |->
                      [name |-> parsed.sections[n].name,
                       code |-> CompileContent(parsed.sections[n].content)]]]

\* new Function, lines 213-215, accepts the compiled code
CompiledWellFormed(compiled) ==
    /\ CodeWellFormed(compiled.body)
    /\ compiled.extends # <<>> =>
          \A n \in 1..Len(compiled.sections) :
              CodeWellFormed(compiled.sections[n].code)

\* The body and each section are run by a function of their own that
\* declares an output and returns it joined, lines 41-53; the push they
\* call is the one of line 19, which appends to the output of line 18.
RECURSIVE RunSections(_, _, _, _)
RunSections(sections, data, n, sofar) ==
    IF n > Len(sections) \/ sofar.threw THEN sofar
    ELSE RunSections(sections, data, n + 1,
                     RunPushes(sections[n].code, data, sofar.output))

\* layoutData, line 56: the outputs the functions of lines 41-53 return
LayoutData(compiled, data) ==
    [key \in DOMAIN data \cup {"_sections", "_content"} |->
        IF key = "_sections"
        THEN JsObject([name \in {compiled.sections[n].name :
                                     n \in 1..Len(compiled.sections)} |->
                          EmptyText])
        ELSE IF key = "_content" THEN EmptyText
        ELSE data[key]]

\* line 58: the layout's output is pushed after what ran before it
PushLayout(run, layout) ==
    IF layout.threw THEN Thrown
    ELSE [threw |-> FALSE, output |-> run.output \o layout.output]

\* BladeEngine.render, lines 171-192, with compile, lines 200-223, and the
\* compiled code run on the data: views maps the names of the files under
\* the views directory to their contents.
RECURSIVE RenderView(_, _, _)
ExtendLayout(run, compiled, data, views) ==
    IF run.threw THEN Thrown
    ELSE PushLayout(run, RenderView(compiled.extends,
                                    LayoutData(compiled, data), views))

RunCompiled(compiled, data, views) ==
    IF ~CompiledWellFormed(compiled) THEN Thrown
    ELSE IF compiled.extends = <<>>
    THEN RunPushes(compiled.body, data, <<>>)
    ELSE ExtendLayout(RunSections(compiled.sections, data, 1,
                                  RunPushes(compiled.body, data, <<>>)),
                      compiled, data, views)

RenderView(templateName, data, views) ==
    IF templateName \notin DOMAIN views THEN Thrown
    ELSE RunCompiled(CompileTemplate(Parse(views[templateName])), data,
                     views)

(***************************************************************************)
(* Templates rendered by BladeEngine.render.                               *)
(***************************************************************************)
PageName == <<"page">>
LayoutName == <<"layout">>
\* the value of name in the render context
NameValue == <<"N">>

\* the result of a render, with what was rendered
Outcome(op, source, given, run) ==
    [op |-> op, source |-> source, given |-> given,
     content |-> Parse(source).content,
     threw |-> run.threw,
     output |-> IF run.threw THEN <<>> ELSE run.output]

Rendered(op, source, data, views, given) ==
    Outcome(op, source, given, RenderView(PageName, data, views))

\* sources without directive and without interpolation
PlainCharacters == {" ", "\n", "\r", "A", BackQuote}
PlainSources == StringsOver(PlainCharacters, MaxText)

RenderPlain(source) ==
    /\ BladeIdle
    /\ blade' = Rendered("plain", source, [name |-> JsText(NameValue)],
                         PageName :> source, [none |-> TRUE])
    /\ UNCHANGED <<stVars, mgrVars, viewVars, ctlVars>>

\* a conditional: @if(first) A, with or without {{ name }}, then what is
\* nested, with or without @elseif(second) B and @else C, then @endif
IfShapes == [elseif : BOOLEAN, else : BOOLEAN, interpolation : BOOLEAN]

IfSource(shape, first, second, nested) ==
    <<"@if", "(", first, ")", "A">>
    \o (IF shape.interpolation
        THEN <<"{", "{", " ", "name", " ", "}", "}">> ELSE <<>>)
    \o nested
    \o (IF shape.elseif THEN <<"@elseif", "(", second, ")", "B">> ELSE <<>>)
    \o (IF shape.else THEN <<"@else", " ", "C">> ELSE <<>>)
    \o <<"@endif">>

\* one conditional, one nested in the first branch of another, or two in
\* a row with a D between them
ConditionalKinds == {"single", "nested", "sequence"}

ConditionalSource(kind, outer, inner) ==
    CASE kind = "single" -> IfSource(outer, "x", "y", <<>>)
      [] kind = "nested" ->
            IfSource(outer, "x", "y", IfSource(inner, "y", "x", <<>>))
      [] OTHER ->
            IfSource(outer, "x", "y", <<>>) \o <<"D">>
                \o IfSource(inner, "y", "x", <<>>)

RenderConditional(kind, outer, inner, x, y) ==
    LET source == ConditionalSource(kind, outer, inner)
    IN  /\ kind = "single" => inner = outer
        /\ BladeIdle
        /\ blade' = Rendered("conditional", source,
                        [x |-> JsBool(x), y |-> JsBool(y),
                         name |-> JsText(NameValue)],
                        PageName :> source,
                        [kind |-> kind, outer |-> outer, inner |-> inner,
                         x |-> x, y |-> y])
        /\ UNCHANGED <<stVars, mgrVars, viewVars, ctlVars>>

\* a loop over items: its header with or without a key, its body, and what
\* follows it
LoopHeaders ==
    { <<"$", "items", " ", "as", " ", "$", "item">>,
      <<"$", "items", " ", "as", " ", "$", "k", " ", "=>", " ", "$",
        "item">> }
LoopBodies ==
    { <<"A">>,
      <<"{", "{", " ", "item", " ", "}", "}">>,
      <<"{", "{", " ", "$", "item", " ", "}", "}">>,
      <<"{", "{", " ", "item", ".", "name", " ", "}", "}">> }
LoopTrailers == {<<>>, <<"{", "{", " ", "name", " ", "}", "}">>}
ItemLists == UNION {[1..n -> {JsText(NameValue)}] : n \in 0..MaxItems}

RenderLoop(header, body, trailer, items) ==
    LET source == <<"@foreach", "(">> \o header \o <<")">> \o body
                  \o <<"@endforeach">> \o trailer
    IN  /\ BladeIdle
        /\ blade' = Rendered("loop", source,
                        [items |-> JsArray(items),
                         name |-> JsText(NameValue)],
                        PageName :> source,
                        [body |-> body, trailer |-> trailer,
                         items |-> Len(items)])
        /\ UNCHANGED <<stVars, mgrVars, viewVars, ctlVars>>

\* a page that extends the layout, with or without a section title, and a
\* layout that yields title with a default and may hold @content
ChildSource(hasSection, hasBody) ==
    <<"@extends", "(", "'", "layout", "'", ")">>
    \o (IF hasSection
        THEN <<"@section", "(", "'", "title", "'", ")", "S", "@endsection">>
        ELSE <<>>)
    \o (IF hasBody THEN <<"B">> ELSE <<>>)

ParentSource(hasContent) ==
    <<"<", "@yield", "(", "'", "title", "'", ",", " ", "'", "D", "'", ")",
      ">">>
    \o (IF hasContent THEN <<"@content">> ELSE <<>>)

RenderLayout(hasSection, hasBody, hasContent) ==
    LET source == ChildSource(hasSection, hasBody)
    IN  /\ BladeIdle
        /\ blade' = Rendered("layout", source,
                        [name |-> JsText(NameValue)],
                        (PageName :> source)
                            @@ (LayoutName :> ParentSource(hasContent)),
                        [hasSection |-> hasSection, hasBody |-> hasBody,
                         hasContent |-> hasContent])
        /\ UNCHANGED <<stVars, mgrVars, viewVars, ctlVars>>

TemplateNext ==
    \/ \E source \in PlainSources : RenderPlain(source)
    \/ \E kind \in ConditionalKinds, outer, inner \in IfShapes,
          x, y \in BOOLEAN :
            RenderConditional(kind, outer, inner, x, y)
    \/ \E header \in LoopHeaders, body \in LoopBodies,
          trailer \in LoopTrailers, items \in ItemLists :
            RenderLoop(header, body, trailer, items)
    \/ \E hasSection, hasBody, hasContent \in BOOLEAN :
            RenderLayout(hasSection, hasBody, hasContent)
    \/ BladeTaken

SpecTemplate == BladeStart /\ [][TemplateNext]_vars

(***************************************************************************)
(* NodeWireManager.autoMarkComponentProperties.  The HTML is a sequence of *)
(* elements <tag attributes>content</tag> whose content is text: a tag     *)
(* name, the attributes in the order they are written, and the words and   *)
(* blanks of the text.  The patterns of the code match an opening tag, its *)
(* text and its closing tag, so they see one element at a time.            *)
(***************************************************************************)
Attribute(name, value) == [name |-> name, value |-> value]

Element(tag, attrs, content) ==
    [tag |-> tag, attrs |-> attrs, content |-> content]

HasAttribute(element, name) ==
    \E n \in 1..Len(element.attrs) : element.attrs[n].name = name

\* the attributes data-nw-event-{eventType}
EventAttributes == {"data-nw-event-click"}

HasEvent(element) ==
    \E n \in 1..Len(element.attrs) : element.attrs[n].name \in EventAttributes

\* lines 455, 476, 497, 535 and 563: the marker is written before the ">"
\* of the opening tag
MarkProperty(element, componentId, propName) ==
    [element EXCEPT !.attrs =
        @ \o << Attribute("data-nodewire-id", componentId),
                Attribute("data-nodewire-prop", propName) >>]

\* lines 613-616
MarkEvent(element, componentId, componentName) ==
    [element EXCEPT !.attrs =
        @ \o << Attribute("data-nodewire-id", componentId),
                Attribute("data-nodewire-component", componentName) >>]

LoadingWords == {"Cargando", "Loading"}

\* /Cargando|Loading|-/
HasLoadingText(content) ==
    \E i \in 1..Len(content) : content[i] \in LoadingWords \cup {"-"}

\* lines 437-445: the text of the button is read after the first place
\* where the HTML holds the same opening tag
ButtonContent(html, n) ==
    LET same == {m \in 1..Len(html) :
                    html[m].tag = html[n].tag /\ html[m].attrs = html[n].attrs}
    IN  html[Least(same)].content

\* lines 425-460: buttons with an event attribute
MarkButtons(html, componentId, propName) ==
    [n \in 1..Len(html) |->
        IF /\ html[n].tag = "button" /\ HasEvent(html[n])
           /\ ~HasAttribute(html[n], "data-nodewire-prop")
           /\ \/ HasLoadingText(ButtonContent(html, n))
              \/ HasAttribute(html[n], "disabled")
        THEN MarkProperty(html[n], componentId, propName)
        ELSE html[n]]

\* lines 463-479: elements with the attribute disabled
MarkDisabled(html, componentId, propName) ==
    [n \in 1..Len(html) |->
        IF /\ HasAttribute(html[n], "disabled")
           /\ ~HasAttribute(html[n], "data-nodewire-prop")
        THEN MarkProperty(html[n], componentId, propName)
        ELSE html[n]]

\* lines 483-502: elements whose text may change
MarkLoadingText(html, componentId, propName) ==
    [n \in 1..Len(html) |->
        IF /\ ~HasAttribute(html[n], "data-nodewire-prop")
           /\ HasLoadingText(html[n].content)
           /\ \/ \E i \in 1..Len(html[n].content) :
                    html[n].content[i] \in LoadingWords
              \/ Trim(html[n].content) = <<"-">>
        THEN MarkProperty(html[n], componentId, propName)
        ELSE html[n]]

\* lines 418-503, for the reactive properties from the one at index on
RECURSIVE MarkReactive(_, _, _, _)
MarkReactive(html, componentId, reactiveProps, index) ==
    IF index > Len(reactiveProps) THEN html
    ELSE MarkReactive(
            MarkLoadingText(
                MarkDisabled(
                    MarkButtons(html, componentId, reactiveProps[index]),
                    componentId, reactiveProps[index]),
                componentId, reactiveProps[index]),
            componentId, reactiveProps, index + 1)

\* lines 517-539: the text is the value, blanks apart; the blanks are not
\* written back
MarkExactValue(html, componentId, propName, valueStr) ==
    [n \in 1..Len(html) |->
        IF /\ ~HasAttribute(html[n], "data-nodewire-prop")
           /\ Trim(html[n].content) = <<valueStr>>
        THEN [MarkProperty(html[n], componentId, propName)
                EXCEPT !.content = <<valueStr>>]
        ELSE html[n]]

\* lines 543-570: the text starts or ends with the value
MarkContainsValue(html, componentId, propName, valueStr) ==
    [n \in 1..Len(html) |->
        LET trimmedContent == Trim(html[n].content)
        IN  IF /\ ~HasAttribute(html[n], "data-nodewire-prop")
               /\ \E i \in 1..Len(html[n].content) :
                    html[n].content[i] = valueStr
               /\ \/ trimmedContent[1] = valueStr
                  \/ trimmedContent[Len(trimmedContent)] = valueStr
            THEN MarkProperty(html[n], componentId, propName)
            ELSE html[n]]

\* lines 506-571, for the entries of the state from the one at index on
RECURSIVE MarkValues(_, _, _, _)
MarkValues(html, componentId, entries, index) ==
    IF index > Len(entries) THEN html
    ELSE MarkValues(
            MarkContainsValue(
                MarkExactValue(html, componentId, entries[index].name,
                               entries[index].value),
                componentId, entries[index].name, entries[index].value),
            componentId, entries, index + 1)

IsStateScript(element) ==
    element.tag = "script" /\ HasAttribute(element, "data-nodewire-state")

IsStateScriptOf(element, componentId) ==
    /\ element.tag = "script"
    /\ \E n \in 1..Len(element.attrs) :
            element.attrs[n] = Attribute("data-nodewire-state", componentId)

\* lines 575-626: the elements with an event attribute between the state
\* script of the component and the next state script
MarkEventElements(html, componentId, componentName) ==
    LET scripts == {n \in 1..Len(html) :
                       IsStateScriptOf(html[n], componentId)}
        stateScriptIndex == Least(scripts)
        following == {n \in (stateScriptIndex + 1)..Len(html) :
                         IsStateScript(html[n])}
        sectionEnd == IF following = {} THEN Len(html) + 1
                      ELSE Least(following)
    IN  IF scripts = {} THEN html
        ELSE [n \in 1..Len(html) |->
                IF /\ n > stateScriptIndex /\ n < sectionEnd
                   /\ HasEvent(html[n])
                THEN MarkEvent(html[n], componentId, componentName)
                ELSE html[n]]

\* the names of the entries whose name starts with "$", line 417
ReactiveNames == {"$loading"}

RECURSIVE ReactiveOf(_)
ReactiveOf(entries) ==
    IF entries = <<>> THEN <<>>
    ELSE (IF Head(entries).name \in ReactiveNames
          THEN <<Head(entries).name>> ELSE <<>>)
         \o ReactiveOf(Tail(entries))

\* lines 408-631: entries are those of component.getState(), each value
\* as String(value)
AutoMarkComponentProperties(html, component) ==
    MarkEventElements(
        MarkValues(
            MarkReactive(html, component.id, ReactiveOf(component.state), 1),
            component.id, component.state, 1),
        component.id, component.name)

(***************************************************************************)
(* The pages marked: elements of a counter component a and the state       *)
(* script of a or of another component b.                                  *)
(***************************************************************************)
StateScript(componentId) ==
    Element("script", <<Attribute("data-nodewire-state", componentId)>>,
            <<"{}">>)

EventAttribute == Attribute("data-nw-event-click", "increment")

PageElements ==
    { StateScript("a"), StateScript("b"),
      Element("button", <<EventAttribute>>, <<"+">>),
      Element("button", <<EventAttribute, Attribute("disabled", "")>>,
              <<"+">>),
      Element("button", <<EventAttribute>>, <<"-">>),
      Element("span", <<>>, <<" ", "0">>),
      Element("span", <<>>, <<"Count:", " ", "0">>),
      Element("span", <<>>, <<"Cargando">>) }

Pages == UNION {[1..n -> PageElements] : n \in 1..MaxElements}

MarkedComponents ==
    { [id |-> "a", name |-> "Counter",
       state |-> <<[name |-> "count", value |-> "0"]>>],
      [id |-> "a", name |-> "Counter",
       state |-> <<[name |-> "count", value |-> "0"],
                   [name |-> "$loading", value |-> "false"]>>],
      [id |-> "a", name |-> "Counter",
       state |-> <<[name |-> "count", value |-> "0"],
                   [name |-> "total", value |-> "0"]>>] }

\* the render of getTemplateEngine, lines 388-391, marks the page rendered
AutoMark(html, component) ==
    /\ BladeIdle
    /\ blade' = [op |-> "mark", component |-> component, given |-> html,
                 before |-> html,
                 html |-> AutoMarkComponentProperties(html, component),
                 applied |-> 1]
    /\ UNCHANGED <<stVars, mgrVars, viewVars, ctlVars>>

\* the marked page is marked again, with the same component
AutoMarkAgain ==
    /\ blade.op = "mark"
    /\ blade.applied < MaxMarks
    /\ blade' = [blade EXCEPT
                    !.before = blade.html,
                    !.html = AutoMarkComponentProperties(blade.html,
                                                         blade.component),
                    !.applied = @ + 1]
    /\ UNCHANGED <<stVars, mgrVars, viewVars, ctlVars>>

MarkNext ==
    \/ \E html \in Pages, component \in MarkedComponents :
            AutoMark(html, component)
    \/ AutoMarkAgain
    \/ BladeTaken

SpecMark == BladeStart /\ [][MarkNext]_vars

(***************************************************************************)
(* The closing processConditionals chooses for each @endif.                *)
(***************************************************************************)
\* a conditional with or without @elseif and @else; long tells that the
\* else branch holds 200 characters of text
LongShapes == [elseif : BOOLEAN, else : BOOLEAN, long : BOOLEAN]

LongIf(shape, nested) ==
    <<"@if", "(", "x", ")", "A">>
    \o nested
    \o (IF shape.elseif THEN <<"@elseif", "(", "y", ")", "B">> ELSE <<>>)
    \o (IF shape.else THEN <<"@else", " ", "C">> ELSE <<>>)
    \o (IF shape.else /\ shape.long THEN <<Filler>> ELSE <<>>)
    \o <<"@endif">>

\* one conditional, one nested in the first branch of another, or two in
\* a row: next to each other or 200 characters apart
EndifKinds == {"single", "nested", "adjacent", "apart"}

EndifSource(kind, outer, inner) ==
    CASE kind = "single" -> LongIf(outer, <<>>)
      [] kind = "nested" -> LongIf(outer, LongIf(inner, <<>>))
      [] kind = "adjacent" -> LongIf(outer, <<>>) \o <<"D">> \o LongIf(inner, <<>>)
      [] OTHER -> LongIf(outer, <<>>) \o <<Filler>> \o LongIf(inner, <<>>)

\* the indexes of the @endif of a text, in order
Endifs(s) == {i \in 1..Len(s) : s[i] = "@endif"}

\* the text the @endif pass of line 595 runs on
BeforeEndifs(content) ==
    ReplaceAll(ReplaceHeaders(ReplaceHeaders(content, "@if", <<"$", "{">>),
                              "@elseif", <<BackQuote, " ", ":", " ">>),
               <<"@else">>, ElseMark)

\* processConditionals on a source: the closing of each @endif, by the
\* place of the @endif among those of the source
CloseConditionals(kind, outer, inner) ==
    /\ kind = "single" => inner = outer
    /\ BladeIdle
    /\ blade' = [op |-> "endifs",
                 source |-> EndifSource(kind, outer, inner),
                 given |-> [kind |-> kind, outer |-> outer, inner |-> inner],
                 content |-> ProcessConditionals(EndifSource(kind, outer, inner)),
                 closings |->
                    LET text == BeforeEndifs(EndifSource(kind, outer, inner))
                    IN  [n \in 1..Cardinality(Endifs(text)) |->
                            EndifClosing(text,
                                CHOOSE i \in Endifs(text) :
                                    Cardinality({j \in Endifs(text) : j <= i}) = n)]]
    /\ UNCHANGED <<stVars, mgrVars, viewVars, ctlVars>>

EndifNext ==
    \/ \E kind \in EndifKinds, outer, inner \in LongShapes :
          CloseConditionals(kind, outer, inner)
    \/ BladeTaken

SpecEndif == BladeStart /\ [][EndifNext]_vars

(***************************************************************************)
(* Component.render with the template engine of the manager.               *)
(***************************************************************************)
\* Component.render, lines 24-32: the state script written before the
\* HTML of the view
RenderedStateScript(component) ==
    Element("script",
            << Attribute("type", "application/json"),
               Attribute("data-nodewire-state", component.id),
               Attribute("data-component-name", component.name) >>,
            <<"{}">>)

\* getTemplateEngine's render, lines 378-399: the HTML of the view is
\* marked for data.component before it is returned
EngineRenderMarked(viewHtml, component) ==
    AutoMarkComponentProperties(viewHtml, component)

\* Component.render, lines 21-33, on the view whose HTML is viewHtml
ComponentRender(viewHtml, component) ==
    /\ BladeIdle
    /\ blade' = [op |-> "render", component |-> component,
                 given |-> viewHtml,
                 html |-> <<RenderedStateScript(component)>>
                          \o EngineRenderMarked(viewHtml, component)]
    /\ UNCHANGED <<stVars, mgrVars, viewVars, ctlVars>>

ComponentRenderNext ==
    \/ \E viewHtml \in Pages, component \in MarkedComponents :
            ComponentRender(viewHtml, component)
    \/ BladeTaken

SpecComponentRender == BladeStart /\ [][ComponentRenderNext]_vars

(***************************************************************************)
(* Templates that include a file.                                          *)
(***************************************************************************)
PartName == <<"part">>
OtherName == <<"other">>

Include(name) == <<"@include", "(", "'">> \o name \o <<"'", ")">>

Interpolation == <<"{", "{", " ", "name", " ", "}", "}">>

\* what the included file is made of: text, an interpolation, a
\* conditional, a loop, a yield, a section and an include of another file
IncludedParts ==
    { <<>>, <<"C">>, Interpolation,
      <<"@if", "(", "x", ")", "C", "@endif">>,
      <<"@foreach", "(", "$", "items", " ", "as", " ", "$", "item", ")",
        "C", "@endforeach">>,
      <<"@yield", "(", "'", "title", "'", ")">>,
      <<"@section", "(", "'", "title", "'", ")", "S", "@endsection">>,
      Include(OtherName) }

OtherContents == {<<"D">>, Interpolation}

\* parse on a template that includes the file part, with the parse of the
\* template that holds the text of the file in the place of the directive
ParseIncluding(before, first, second, after, other) ==
    /\ BladeIdle
    /\ blade' = [op |-> "include",
                 source |-> before \o Include(PartName) \o after,
                 given |-> [part |-> first \o second, other |-> other],
                 parsed |->
                    ParseUnder(before \o Include(PartName) \o after,
                               (PartName :> first \o second)
                                   @@ (OtherName :> other)),
                 inlined |->
                    ParseUnder(before \o first \o second \o after,
                               (PartName :> first \o second)
                                   @@ (OtherName :> other))]
    /\ UNCHANGED <<stVars, mgrVars, viewVars, ctlVars>>

IncludeNext ==
    \/ \E before \in {<<>>, <<"A">>}, after \in {<<>>, <<"B">>},
          first, second \in IncludedParts, other \in OtherContents :
            ParseIncluding(before, first, second, after, other)
    \/ BladeTaken

SpecInclude == BladeStart /\ [][IncludeNext]_vars

(***************************************************************************)
(* Templates that invoke components.                                       *)
(***************************************************************************)
Opener(name) == <<"@component", "(", "'", name, "'", ")">>

WithBody(name, body) == Opener(name) \o body \o <<"@endcomponent">>

Guarded(invocation) ==
    <<"@if", "(", "x", ")">> \o invocation \o <<"@endif">>

ComponentNames == {"a", "b"}

\* a component invoked without a body or with one, by itself or inside a
\* conditional
Invocations ==
    UNION { { Opener(name), WithBody(name, <<"X">>), WithBody(name, <<"Y">>),
              Guarded(Opener(name)), Guarded(WithBody(name, <<"X">>)) } :
            name \in ComponentNames }

\* parse on a template that invokes two components
ParseComponents(first, between, second) ==
    /\ BladeIdle
    /\ blade' = [op |-> "components",
                 source |-> first \o between \o second,
                 parsed |-> ParseUnder(first \o between \o second, EmptyMap)]
    /\ UNCHANGED <<stVars, mgrVars, viewVars, ctlVars>>

ComponentsNext ==
    \/ \E first, second \in Invocations, between \in {<<>>, <<"D">>} :
            ParseComponents(first, between, second)
    \/ BladeTaken

SpecComponents == BladeStart /\ [][ComponentsNext]_vars

(***************************************************************************)
(* Routes to controller methods (BaseController.bind and the Router).      *)
(* Requests arrive in the order of their numbers.  A method runs up to its *)
(* first await, or to its end, in the step that enters the route; what     *)
(* follows the await is a step of its own.                                 *)
(***************************************************************************)
Routes == {"bind", "wrapper", "class"}

\* what a method does up to its first await, and after it
Runs == {"await", "responds", "throws"}

\* a method takes the request from the fields of this, as render, json,
\* redirect, error, param, query and body do, or from its own parameters
Uses == {"fields", "arguments"}

Arrived(r) ==
    /\ handlers[r] = NoHandler
    /\ \A q \in 1..(r - 1) : handlers[q] # NoHandler

\* the handlers that wait at an await
Suspended == {r \in Requests : handlers[r].pc = "suspended"}

\* the request and the response object a method reaches: this.req and
\* this.res of its controller, or the parameters it was called with
Through(ctl, instance, uses, r) ==
    IF uses = "fields" THEN ctl[instance] ELSE [req |-> r, res |-> r]

\* res.render, res.json, res.redirect, res.send: one more answer on the
\* response object k
Send(resps, k, by, about, status) ==
    [resps EXCEPT ![k] = Append(@, [by |-> by, about |-> about,
                                      status |-> status])]

\* the catch of the handler: the bound method answers 500 on the response
\* object of its closure unless its headers were sent; the wrappers of the
\* Router pass the error to next
MethodFailed(resps, r, h) ==
    [handler |-> [h EXCEPT !.pc = "done", !.threw = TRUE],
     responses |-> IF h.route = "bind" /\ resps[r] = <<>>
                   THEN Send(resps, r, r, r, 500)
                   ELSE resps]

\* the method of the controller from where it stands to its end; the route
\* has set the fields, so that no helper finds this.res missing
RunMethod(ctl, resps, r, h, run) ==
    LET seen == Through(ctl, h.instance, h.uses, r)
    IN  IF run = "throws"
        THEN MethodFailed(resps, r, h)
        ELSE [handler |-> [h EXCEPT !.pc = "done", !.read = seen.req,
                                    !.sentOn = seen.res],
              responses |-> Send(resps, seen.res, r, seen.req, 200)]

\* the route handler is entered for request r: the fields are set and the
\* method is awaited
Enter(r, route, instance, uses, ctl, run) ==
    LET h == [pc |-> "suspended", route |-> route, instance |-> instance,
              uses |-> uses, during |-> Suspended, read |-> Null,
              sentOn |-> Null, threw |-> FALSE]
    IN  /\ Arrived(r)
        /\ controllers' = ctl
        /\ IF run = "await"
           THEN /\ handlers' = [handlers EXCEPT ![r] = h]
                /\ UNCHANGED responses
           ELSE /\ handlers' =
                      [handlers EXCEPT
                          ![r] = RunMethod(ctl, responses, r, h, run).handler]
                /\ responses' = RunMethod(ctl, responses, r, h, run).responses
        /\ UNCHANGED <<stVars, mgrVars, viewVars, bladeVars>>

\* controller.bind(methodName): this.req = req; this.res = res;
\* await method.call(this, req, res)
BoundMethod(r, uses, run) ==
    Enter(r, "bind", SharedInstance, uses,
          [controllers EXCEPT ![SharedInstance] = [req |-> r, res |-> r]],
          run)

\* createControllerWrapper(controllerInstance, methodName):
\* controllerInstance.req = req; controllerInstance.res = res;
\* await method.call(controllerInstance)
ControllerWrapper(r, run) ==
    Enter(r, "wrapper", SharedInstance, "fields",
          [controllers EXCEPT ![SharedInstance] = [req |-> r, res |-> r]],
          run)

\* registerControllerRoute: a controller of its own for the request
RegisterControllerRoute(r, run) ==
    Enter(r, "class", NewInstance(r), "fields",
          controllers @@ (NewInstance(r) :> [req |-> r, res |-> r]), run)

\* the awaited promise settles and the method runs to its end
MethodResumes(r, run) ==
    /\ handlers[r].pc = "suspended"
    /\ handlers' =
          [handlers EXCEPT
              ![r] = RunMethod(controllers, responses, r, handlers[r],
                               run).handler]
    /\ responses' =
          RunMethod(controllers, responses, r, handlers[r], run).responses
    /\ UNCHANGED controllers
    /\ UNCHANGED <<stVars, mgrVars, viewVars, bladeVars>>

ControllerNext ==
    \/ \E r \in Requests, uses \in Uses, run \in Runs :
          BoundMethod(r, uses, run)
    \/ \E r \in Requests, run \in Runs : ControllerWrapper(r, run)
    \/ \E r \in Requests, run \in Runs : RegisterControllerRoute(r, run)
    \/ \E r \in Requests, run \in {"responds", "throws"} :
          MethodResumes(r, run)

SpecController == BladeStart /\ [][ControllerNext]_vars

(***************************************************************************)
(* Properties of handleComponentCall.                                      *)
(***************************************************************************)
\* a call that returned success, at once or when its method settled
Succeeded == out.op \in {"call", "settle"} /\ out.success

\* C1: after a successful call the reported updates are exactly the keys of
\* the new state whose serialized value differs between the snapshot the
\* code took and the new state, each with its new value; a value replaced
\* by an equal one is not among them.
C1_ChangedKeysAreTheDifferingKeys ==
    Succeeded =>
        /\ DOMAIN out.updates =
              {k \in DOMAIN out.newState :
                  k \notin DOMAIN out.oldState
                  \/ out.oldState[k] # out.newState[k]}
        /\ \A k \in DOMAIN out.updates : out.updates[k] = out.newState[k]

\* C1, its case: removeItem replaced a non-empty array by a new array with
\* the same contents, and the array is not reported.
C1_Witness ==
    /\ Succeeded
    /\ out.method = N_removeItem
    /\ N_items \in DOMAIN out.newState
    /\ Len(out.newState[N_items].v) > 0
    /\ N_items \notin DOMAIN out.updates

\* C2: a key is reported as changed only if the action changed it, that
\* is, only if its value after the action differs from its value when the
\* client's state had been restored and the action was about to run.
C2_OnlyWhatTheActionChanged ==
    out.op = "call" /\ out.success =>
        \A k \in DOMAIN out.updates :
            Stringify(out.preState, k) # out.newState[k]

C4_IntervalCancelledOnce ==
    out.op = "final" => out.cancels = 1 /\ ~out.interval

\* C5: the pass after settlement delivers to the callback every volatile
\* property that the completion path of the action changed and that
\* differs from the value last observed.
C5_CleanupChangeDelivered ==
    out.op = "final" /\ out.completed =>
        LET due == out.cleanupChanged \cap out.differing IN
        due # {} => out.invoked /\ due \subseteq out.delivered

\* C6: while the action is outstanding, a pass invokes the callback if and
\* only if some volatile property differs from the value last observed,
\* and the callback receives exactly the properties that differ.
C6_PassReportsWhatDiffers ==
    out.op \in {"timeout", "interval"} /\ out.outstanding /\ out.completed =>
        /\ out.invoked <=> out.differing # {}
        /\ out.invoked => out.delivered = out.differing

\* C7: every stored component has the id it is stored under, and no
\* operation of the manager replaces the instance stored under an id.
C7_SameInstanceForever ==
    /\ \A i \in Ids :
          components[i] # 0 => heap[components[i]][N_id] = Str(i)
    /\ out.op \in {"create", "createWithOptions", "call", "start", "settle",
                  "cleanup"} =>
          \A i \in Ids : out.before[i] # 0 => components[i] = out.before[i]

\* C20: calls on one id are not kept apart.  A call that arrives while
\* another is suspended on the same id finds, under that id, the very
\* instance the suspended call holds, and what it restores and writes is
\* the state of that instance, which the suspended call reads when it
\* resumes.
C20_CallsShareTheInstance ==
    out.op = "call" /\ call.pc = "running" /\ call.id = out.id =>
        /\ components[out.id] = call.oid
        /\ out.success => out.newState = GetState(heap[call.oid])

\* C20, its case: while a call is suspended, a second call on the same id
\* succeeded and changed the array.
C20_Witness ==
    /\ out.op = "call"
    /\ call.pc = "running"
    /\ call.id = out.id
    /\ out.success
    /\ N_items \in DOMAIN out.updates

(***************************************************************************)
(* Properties of Component.setState and getState.                          *)
(***************************************************************************)
\* the state keys of the component of SpecState
TargetStateKeys == {N_count, N_loading, N_items}

\* C8: setState(m) changes a property only if it is a state key and an own
\* key of m, and then to m's value; every other property, id, name, the
\* private field and the callback among them, keeps its value, and the
\* component has the same properties as before; unless the call throws,
\* every state key that m has is assigned.
C8_SetStateFrame ==
    stOp = "setState" =>
        /\ DOMAIN target = DOMAIN targetBefore
        /\ \A p \in DOMAIN target :
              target[p] # targetBefore[p] =>
                 /\ p \in TargetStateKeys
                 /\ p \in DOMAIN incoming
                 /\ target[p] = incoming[p]
        /\ ~stThrew =>
              \A p \in TargetStateKeys \cap DOMAIN incoming :
                  target[p] = incoming[p]

\* C8, its case: a map with a state key, the identity fields, a private
\* field, a method name and an unknown key, that changed the state key.
C8_Witness ==
    /\ stOp = "setState"
    /\ {N_count, N_id, N_name, N_secret, N_addUser, N_bogus}
          \subseteq DOMAIN incoming
    /\ target[N_count] # targetBefore[N_count]

\* C9: after setState(s), getState() agrees with s on every state key that
\* s has, a second setState(s) changes nothing, and no key of s makes
\* setState raise an error.
C9_SetStateGetState ==
    stOp = "setState" =>
        /\ ~stThrew
        /\ \A k \in DOMAIN incoming \cap DOMAIN GetState(target) :
              GetState(target)[k] = incoming[k]
        /\ SetState(target, incoming) = target

(***************************************************************************)
(* Properties of the renderer cache.                                       *)
(***************************************************************************)
\* C10: with caching enabled, a render of a name that has a cached
\* renderer executes that renderer, whatever became of the source, and a
\* render of a name that has none compiles the current source; with
\* caching disabled the cache is empty and every render compiles the
\* current source.
C10_CachedRendererIsExecuted ==
    /\ ~cacheEnabled => \A n \in ViewNames : cache[n] = NoRenderer
    /\ viewOut.op = "render" /\ cacheEnabled
       /\ viewOut.cachedBefore # NoRenderer =>
          ~viewOut.threw /\ viewOut.executed = viewOut.cachedBefore
    /\ viewOut.op = "render" /\ ~viewOut.threw
       /\ (~cacheEnabled \/ viewOut.cachedBefore = NoRenderer) =>
          viewOut.compiled /\ viewOut.executed = viewOut.source.version

(***************************************************************************)
(* Properties of the template engine, the parser and the compiler.         *)
(***************************************************************************)
\* C11: every template name that reaches file resolution, whether given to
\* render, to the render of the template-engine object of a component, or
\* named by @extends or @include, resolves to a file under the views
\* directory.
C11_ResolvesUnderViewsPath ==
    blade.op \in {"render", "wrapper", "extends", "include"} =>
        UnderViewsPath(blade.file)

\* the word at i lies between an opening and a closing quote
InStringLiteral(e, i) ==
    /\ Cardinality({j \in 1..(i - 1) : e[j] = "'"}) % 2 = 1
    /\ \E j \in (i + 1)..Len(e) : e[j] = "'"

\* the word at i is one the translator has to leave as it is: a reserved
\* word, a word after a member-access dot, a word before a dot that starts
\* no dotted chain, a word in a string literal
LeftAlone(e, i) ==
    \/ e[i] \in JsKeywords
    \/ i > 1 /\ e[i - 1] = "."
    \/ i < Len(e) /\ e[i + 1] = "." /\ ChainEnd(e, i) = i
    \/ InStringLiteral(e, i)

\* C18: the translator puts the scoped-context prefix before no reserved
\* word, no identifier next to a member-access operator and no identifier
\* inside a string literal; an identifier directly after "(" or "[" that is
\* none of these gets the prefix.
C18_LeavesAloneWhatItShould ==
    blade.op = "translate" =>
        \A i \in 1..Len(blade.dollar) :
            IsWord(blade.dollar[i]) =>
                /\ LeftAlone(blade.dollar, i) => i \notin blade.marks
                /\ ( /\ i > 1
                     /\ blade.dollar[i - 1] \in {"(", "["}
                     /\ ~LeftAlone(blade.dollar, i)
                     /\ ChainEnd(blade.dollar, i) = Len(blade.dollar) )
                       => i \in blade.marks

\* the variable references of the claim and what each becomes
C19_References ==
    { [from |-> <<"x">>, to |-> <<"data", ".", "x">>],
      [from |-> <<"x", ".", "y", ".", "z">>,
       to |-> <<"data", ".", "x", ".", "y", ".", "z">>],
      [from |-> <<"$", "x">>, to |-> <<"data", ".", "x">>],
      [from |-> <<"$", "x", "->", "y">>,
       to |-> <<"data", ".", "x", ".", "y">>],
      [from |-> <<"$", "x", "[", "'", "k", "'", "]">>,
       to |-> <<"data", ".", "x", ".", "k">>] }

\* C19: each variable reference is qualified exactly once: x, x.y.z, $x,
\* $x->y and $x['k'] become data.x, data.x.y.z, data.x, data.x.y and
\* data.x.k, never data.data.x, and translating the translation changes
\* nothing.
C19_QualifiedOnce ==
    blade.op = "translate" =>
        \A r \in C19_References :
            blade.expression = r.from =>
                /\ blade.res = r.to
                /\ ~Contains(blade.res, <<"data", ".", "data">>)
                /\ ConvertBladeExpression(blade.res) = blade.res


\* the characters of text that are among chars, in order
Keep(text, chars) == SelectSeq(text, LAMBDA c : c \in chars)

\* C14: a source without directive and without interpolation is rendered
\* to itself, character for character, leading and trailing blanks and
\* line terminators included.
C14_PlainIsVerbatim ==
    blade.op = "plain" => ~blade.threw /\ blade.output = blade.source

\* C12: a well-formed conditional, nested, repeated or with an
\* interpolation in a branch, renders without error and shows the text of
\* the branch its conditions choose and of no other branch: the branch
\* letters of the output are those of the chosen branches, in order.
C12_ExactlyOneBranch ==
    blade.op = "conditional" =>
        LET given == blade.given
            Chosen(shape, first, second, nested) ==
                IF first THEN <<"A">> \o nested
                ELSE IF shape.elseif /\ second THEN <<"B">>
                ELSE IF shape.else THEN <<"C">>
                ELSE <<>>
            innerText == Chosen(given.inner, given.y, given.x, <<>>)
            expected ==
                CASE given.kind = "single" ->
                        Chosen(given.outer, given.x, given.y, <<>>)
                  [] given.kind = "nested" ->
                        Chosen(given.outer, given.x, given.y, innerText)
                  [] OTHER ->
                        Chosen(given.outer, given.x, given.y, <<>>)
                            \o innerText
        IN  /\ ~blade.threw
            /\ Keep(blade.output, {"A", "B", "C"}) = expected

\* C13: a page that extends a layout shows its section S at the yield when
\* it declares the section and the default D when it does not, and its
\* body B only where the layout has @content: of S, D and B the output
\* holds the yielded one and then the body, nothing else.
C13_SectionAtTheYield ==
    blade.op = "layout" =>
        LET given == blade.given
        IN  /\ ~blade.threw
            /\ Keep(blade.output, {"S", "D", "B"}) =
                    (IF given.hasSection THEN <<"S">> ELSE <<"D">>)
                    \o (IF given.hasBody /\ given.hasContent
                        THEN <<"B">> ELSE <<>>)

\* C15: a loop renders without error whatever its body, and a body A is
\* in the output once per item: not at all over an empty collection.
C15_BodyOncePerItem ==
    blade.op = "loop" =>
        /\ ~blade.threw
        /\ blade.given.body = <<"A">> =>
                Len(Keep(blade.output, {"A"})) = blade.given.items

\* C16: inside the body of a loop the bound name item is never rewritten
\* into a path of the render context.
C16_BoundNameNotQualified ==
    blade.op = "loop" => ~Contains(blade.content, <<"data", ".", "item">>)


\* C17: autoMark applied to its own output with the same component returns
\* that output unchanged: no property marker and no event-element marker
\* is added the second time.
C17_AutoMarkIdempotent ==
    blade.op = "mark" /\ blade.applied >= 2 => blade.html = blade.before

\* the @if an @endif at index closes: the nearest one before it with as
\* many @if as @endif in between
MatchingIf(source, index) ==
    Greatest({i \in 1..(index - 1) :
                /\ source[i] = "@if"
                /\ Cardinality({j \in (i + 1)..(index - 1) : source[j] = "@if"})
                   = Cardinality({j \in (i + 1)..(index - 1) :
                                      source[j] = "@endif"})})

\* an @else lies between the @endif at index and the @if it closes
ElseBetween(source, index) ==
    \E e \in (MatchingIf(source, index) + 1)..(index - 1) :
        source[e] = "@else"

NthEndif(source, n) ==
    CHOOSE i \in Endifs(source) :
        Cardinality({j \in Endifs(source) : j <= i}) = n

\* C21: every @endif gets the closing of a chain with an else branch
\* exactly when an @else lies between it and its own @if, whatever the
\* conditionals before it or around it hold and however long the branch.
C21_ClosingFollowsOwnElse ==
    blade.op = "endifs" =>
        \A n \in 1..Len(blade.closings) :
            (blade.closings[n] = <<BackQuote, "}">>)
                <=> ElseBetween(blade.source, NthEndif(blade.source, n))

\* the elements of html that carry the marker of the property propName
MarkedFor(html, propName) ==
    {n \in 1..Len(html) :
        \E a \in 1..Len(html[n].attrs) :
            html[n].attrs[a] = Attribute("data-nodewire-prop", propName)}

\* the trimmed text of the element is the value, starts with it or ends
\* with it
ShowsValue(element, valueStr) ==
    LET text == Trim(element.content)
    IN  text # <<>> /\ (text[1] = valueStr \/ text[Len(text)] = valueStr)

\* the elements of the page given that the property of entry may be
\* marked on: those without a marker, on the page given and for any
\* other property on the page marked, that show the value
Candidates(entry) ==
    {n \in 1..Len(blade.given) :
        /\ ~HasAttribute(blade.given[n], "data-nodewire-prop")
        /\ ShowsValue(blade.given[n], entry.value)
        /\ \A a \in 1..Len(blade.html[n].attrs) :
              blade.html[n].attrs[a].name = "data-nodewire-prop"
                  => blade.html[n].attrs[a].value = entry.name}

\* the properties marked by their value: those that are not reactive
ValueEntries ==
    {blade.component.state[i] : i \in 1..Len(blade.component.state)}
        \ {entry \in {blade.component.state[i] :
                          i \in 1..Len(blade.component.state)} :
               entry.name \in ReactiveNames}

\* C22: the marker of each property is attached to one element, the first
\* unmarked one whose text shows the value; the elements after it that
\* show the value stay unmarked, and no element is marked for two
\* properties.
C22_FirstMatchOnly ==
    blade.op = "mark" /\ blade.applied = 1 =>
        /\ \A entry \in ValueEntries :
              MarkedFor(blade.html, entry.name) =
                  IF Candidates(entry) = {} THEN {}
                  ELSE {Least(Candidates(entry))}
        /\ \A n \in 1..Len(blade.html) :
              Cardinality({a \in 1..Len(blade.html[n].attrs) :
                  blade.html[n].attrs[a].name = "data-nodewire-prop"}) <= 1

\* the markers (componentId, componentName) of the component on an element
EventMarks(element, component) ==
    Cardinality({a \in 2..Len(element.attrs) :
        /\ element.attrs[a - 1] = Attribute("data-nodewire-id", component.id)
        /\ element.attrs[a] =
              Attribute("data-nodewire-component", component.name)})

\* the elements between the first state script of the component and the
\* next state script, or the end of the document
ComponentRegion(html, component) ==
    LET own == {n \in 1..Len(html) : IsStateScriptOf(html[n], component.id)}
    IN  IF own = {} THEN {}
        ELSE {n \in (Least(own) + 1)..Len(html) :
                \A m \in (Least(own) + 1)..n : ~IsStateScript(html[m])}

\* C23: in the HTML Component.render returns, each element with an event
\* attribute in the region of the component carries the marker of the
\* component once, and no element with an event attribute outside the
\* region carries it.
C23_EventElementsOfTheRegionMarked ==
    blade.op = "render" =>
        \A n \in 1..Len(blade.html) :
            HasEvent(blade.html[n]) =>
                EventMarks(blade.html[n], blade.component) =
                    IF n \in ComponentRegion(blade.html, blade.component)
                    THEN 1 ELSE 0

\* C24: a template that includes a file is parsed as the template that
\* holds the text of the file in the place of the @include: the passes see
\* the directives and interpolations of the file, an include of another
\* file among them.
C24_IncludedAsIfWritten ==
    blade.op = "include" => blade.parsed = blade.inlined

\* the indexes where a component is invoked
Openers(source) == {i \in 1..Len(source) : source[i] = "@component"}

\* the @endcomponent that closes the opener at index i, 0 when it has
\* none: the next one, unless another opener lies before it or a
\* conditional opens or closes in between without its counterpart
ClosingMarker(source, i) ==
    LET next == IndexOf(source, <<"@endcomponent">>, i)
        between == SubSeq(source, i + 1, next - 1)
    IN  IF /\ next # 0
           /\ ~Contains(between, <<"@component">>)
           /\ ~Contains(between, <<"@if">>)
           /\ ~Contains(between, <<"@endif">>)
        THEN next
        ELSE 0

\* the invocations of a template, in order: the name of each with its body
ExpectedInvocations(source) ==
    [n \in 1..Cardinality(Openers(source)) |->
        LET i == CHOOSE o \in Openers(source) :
                    Cardinality({p \in Openers(source) : p <= o}) = n
        IN  [name |-> source[i + 3],
             bodiless |-> ClosingMarker(source, i) = 0,
             body |-> IF ClosingMarker(source, i) = 0 THEN <<>>
                      ELSE Trim(SubSeq(source, i + 6,
                                       ClosingMarker(source, i) - 1))]]

\* the invocations the parser kept: the placeholders of the content, each
\* with the slot kept under its name, and the render expressions
KeptAt(parsed, i) ==
    IF parsed.content[i] = "<!--COMPONENT:"
    THEN <<[name |-> parsed.content[i + 1], bodiless |-> FALSE,
            body |-> parsed.components[parsed.content[i + 1]].slot]>>
    ELSE IF parsed.content[i] = "(function(){const c=data."
    THEN <<[name |-> parsed.content[i + 1], bodiless |-> TRUE,
            body |-> <<>>]>>
    ELSE <<>>

RECURSIVE KeptFrom(_, _)
KeptFrom(parsed, i) ==
    IF i > Len(parsed.content) THEN <<>>
    ELSE KeptAt(parsed, i) \o KeptFrom(parsed, i + 1)

\* C25: the parser keeps every invocation of a template, those of one
\* component type included, and gives a body only to an opener whose
\* closing marker is its own: a bodiless invocation before one with a body
\* stays bodiless, and so does one closed only across a conditional.
C25_InvocationsKeptApart ==
    blade.op = "components" =>
        KeptFrom(blade.parsed, 1) = ExpectedInvocations(blade.source)

\* the tokens the parser writes in the place of a section, a component,
\* a slot and the two ends of a loop
PlaceholderTokens ==
    {"<!--SECTION:", "<!--COMPONENT:", "<!--SLOT:", "<!--LOOP:",
     "<!--ENDLOOP-->"}

\* C26: no placeholder the parser wrote is left in what render returns:
\* each is replaced by a later pass, or the render fails.
C26_NoPlaceholderRendered ==
    blade.op \in {"plain", "conditional", "loop", "layout"} =>
        \A i \in 1..Len(blade.output) :
            blade.output[i] \notin PlaceholderTokens

\* the ids under which a component is stored
StoredIds(comps) == {i \in Ids : comps[i] # 0}

\* C27: a call that fails because the method does not exist or is not a
\* function runs no method, stores no component and leaves the state of
\* the component as it was before the call.
C27_MissingMethodLeavesNoTrace ==
    out.op = "call" /\ out.error = "no existe" =>
        /\ ~out.executed
        /\ StoredIds(components) = StoredIds(out.before)
        /\ out.before[out.id] # 0 =>
              JsonCopy(GetState(heap[components[out.id]])) = out.oldState

\* C28: a call executes a method only on a component of the type the
\* request names.
C28_MethodRunsOnNamedType ==
    out.op \in {"call", "start"} /\ out.executed =>
        heap[components[out.id]][N_name].v = out.name

\* a handler whose controller was given another request while it waited
Overtaken(r) ==
    \E q \in Requests :
        /\ handlers[q] # NoHandler
        /\ r \in handlers[q].during
        /\ handlers[q].instance = handlers[r].instance

\* C29: a handler that waited at an await while another request was routed
\* to the same controller object has, when it answers, read its own request
\* and sent on the response object of its own request
C29_HandlerKeepsOwnRequest ==
    \A r \in Requests :
        (/\ handlers[r].pc = "done"
         /\ ~handlers[r].threw
         /\ Overtaken(r))
        => (handlers[r].read = r /\ handlers[r].sentOn = r)

\* the elements of html that follow the state script of a component other
\* than the one marked, up to the next state script: what another
\* component rendered
OtherRegion(html, component) ==
    {n \in 1..Len(html) :
        /\ ~IsStateScript(html[n])
        /\ \E m \in 1..(n - 1) :
              /\ IsStateScript(html[m])
              /\ ~IsStateScriptOf(html[m], component.id)
              /\ \A k \in (m + 1)..(n - 1) : ~IsStateScript(html[k])}

\* C30: autoMark for a component leaves the elements another component
\* rendered without a property marker, whatever their text shows
C30_OtherElementsLeftUnmarked ==
    blade.op = "mark" =>
        \A n \in OtherRegion(blade.given, blade.component) :
            ~HasAttribute(blade.html[n], "data-nodewire-prop")

====
